---- MODULE Spec2Model ----
(***************************************************************************)
(* Solar / SREC calculation engine of netzero-calculator.                  *)
(*                                                                         *)
(* Representation                                                          *)
(*  - A string is a sequence of one-character strings, so that             *)
(*    toUpperCase, toLowerCase, trim and includes are computed character   *)
(*    by character as the JavaScript methods compute them.                 *)
(*  - A JavaScript number is a record [k, n, d]: k = "fin" is the rational *)
(*    n/d in lowest terms (d > 0); k = "inf" is +Infinity (n = 1) or       *)
(*    -Infinity (n = -1); k = "nan" is NaN.  Arithmetic is exact: binary   *)
(*    floating-point rounding error and the sign of zero are not modelled. *)
(*  - Table columns are integers in the unit named beside each column.     *)
(***************************************************************************)
EXTENDS Integers, Sequences, FiniteSets, TLC

(***************************************************************************)
(* Strings                                                                 *)
(***************************************************************************)
UpperLetters == <<"A","B","C","D","E","F","G","H","I","J","K","L","M",
                  "N","O","P","Q","R","S","T","U","V","W","X","Y","Z">>

LowerLetters == <<"a","b","c","d","e","f","g","h","i","j","k","l","m",
                  "n","o","p","q","r","s","t","u","v","w","x","y","z">>

\* String.prototype.toUpperCase, one character
UpperChar(c) ==
  IF \E i \in 1..26 : LowerLetters[i] = c
    THEN UpperLetters[CHOOSE i \in 1..26 : LowerLetters[i] = c]
    ELSE c

\* String.prototype.toLowerCase, one character
LowerChar(c) ==
  IF \E i \in 1..26 : UpperLetters[i] = c
    THEN LowerLetters[CHOOSE i \in 1..26 : UpperLetters[i] = c]
    ELSE c

toUpperCase(s) == [i \in 1..Len(s) |-> UpperChar(s[i])]

toLowerCase(s) == [i \in 1..Len(s) |-> LowerChar(s[i])]

\* String.prototype.trim: drop leading and trailing blanks
RECURSIVE TrimLeft(_)
TrimLeft(s) == IF s # <<>> /\ Head(s) = " " THEN TrimLeft(Tail(s)) ELSE s

RECURSIVE TrimRight(_)
TrimRight(s) ==
  IF s # <<>> /\ s[Len(s)] = " " THEN TrimRight(SubSeq(s, 1, Len(s) - 1)) ELSE s

trim(s) == TrimRight(TrimLeft(s))

\* String.prototype.includes: sub occurs in s as a contiguous substring
includes(s, sub) ==
  \E i \in 1..(Len(s) - Len(sub) + 1) : SubSeq(s, i, i + Len(sub) - 1) = sub

(***************************************************************************)
(* Numbers                                                                 *)
(***************************************************************************)
Abs(i) == IF i < 0 THEN -i ELSE i

Sign(i) == IF i < 0 THEN -1 ELSE IF i > 0 THEN 1 ELSE 0

\* the recursive operators bind their operands in a set constructor, so
\* that an operand is evaluated once however deep the recursion
RECURSIVE Gcd(_, _)
Gcd(a, b) ==
  CHOOSE r \in { IF y = 0 THEN x ELSE Gcd(y, x % y) : x \in {a}, y \in {b} } : TRUE

\* the rational n/d (d # 0) in lowest terms with a positive denominator
Rat(n, d) ==
  CHOOSE r \in { [k |-> "fin", n |-> Sign(y) * (x \div Gcd(Abs(x), Abs(y))),
                   d |-> Abs(y) \div Gcd(Abs(x), Abs(y))] : x \in {n}, y \in {d} } : TRUE

Fin(n) == [k |-> "fin", n |-> n, d |-> 1]

NaN == [k |-> "nan", n |-> 0, d |-> 1]

Inf(s) == [k |-> "inf", n |-> s, d |-> 1]

IsNaN(a) == a.k = "nan"

IsFinite(a) == a.k = "fin"

\* The arithmetic operators bind their operands in a set constructor, so
\* that an operand is evaluated once however often the operator reads it.

\* a * b
Mul(a, b) ==
  CHOOSE r \in
    { IF IsNaN(x) \/ IsNaN(y) THEN NaN
      ELSE IF IsFinite(x) /\ IsFinite(y) THEN Rat(x.n * y.n, x.d * y.d)
      ELSE IF Sign(x.n) * Sign(y.n) = 0 THEN NaN
      ELSE Inf(Sign(x.n) * Sign(y.n)) : x \in {a}, y \in {b} } : TRUE

\* a / b
Div(a, b) ==
  CHOOSE r \in
    { IF IsNaN(x) \/ IsNaN(y) THEN NaN
      ELSE IF IsFinite(x) /\ IsFinite(y) THEN
             IF y.n # 0 THEN Rat(x.n * y.d, x.d * y.n)
             ELSE IF x.n = 0 THEN NaN ELSE Inf(Sign(x.n))
      ELSE IF IsFinite(x) THEN Fin(0)
      ELSE IF IsFinite(y) THEN Inf(IF y.n < 0 THEN -x.n ELSE x.n)
      ELSE NaN : x \in {a}, y \in {b} } : TRUE

\* a + b
Add(a, b) ==
  CHOOSE r \in
    { IF IsNaN(x) \/ IsNaN(y) THEN NaN
      ELSE IF IsFinite(x) /\ IsFinite(y) THEN Rat(x.n * y.d + y.n * x.d, x.d * y.d)
      ELSE IF IsFinite(x) THEN y
      ELSE IF IsFinite(y) THEN x
      ELSE IF x.n = y.n THEN x ELSE NaN : x \in {a}, y \in {b} } : TRUE

\* a - b
Sub(a, b) == Add(a, Mul(Fin(-1), b))

\* a > b (false when either is NaN)
Gt(a, b) ==
  \E x \in {a}, y \in {b} :
    IF IsNaN(x) \/ IsNaN(y) THEN FALSE
    ELSE IF IsFinite(x) /\ IsFinite(y) THEN x.n * y.d > y.n * x.d
    ELSE IF IsFinite(x) THEN y.n < 0
    ELSE IF IsFinite(y) THEN x.n > 0
    ELSE x.n > y.n

\* a <= b (false when either is NaN)
Le(a, b) == \E x \in {a}, y \in {b} : ~IsNaN(x) /\ ~IsNaN(y) /\ ~Gt(x, y)

\* Math.round: the nearest integer, a half rounding towards +Infinity
Round(a) ==
  CHOOSE r \in
    { IF IsFinite(x) THEN Fin((2 * x.n + x.d) \div (2 * x.d)) ELSE x : x \in {a} } : TRUE

\* Math.abs
MathAbs(a) ==
  CHOOSE r \in
    { IF IsFinite(x) THEN [x EXCEPT !.n = Abs(x.n)]
      ELSE IF IsNaN(x) THEN x ELSE Inf(1) : x \in {a} } : TRUE

\* Math.min of two numbers
MathMin(a, b) ==
  CHOOSE r \in
    { IF IsNaN(x) \/ IsNaN(y) THEN NaN ELSE IF Gt(x, y) THEN y ELSE x :
      x \in {a}, y \in {b} } : TRUE

\* the truthiness of a number: 0 and NaN are falsy
Truthy(a) == \E x \in {a} : ~IsNaN(x) /\ ~(IsFinite(x) /\ x.n = 0)

(***************************************************************************)
(* JavaScript objects                                                      *)
(***************************************************************************)
\* the value of a property that is absent
Undefined == <<"undefined">>

\* what a plain object inherits: the all-lower-case and mixed-case property
\* names of Object.prototype, found by obj[key] and by the "in" operator
ObjectPrototypeKeys ==
  { <<"c","o","n","s","t","r","u","c","t","o","r">>,
    <<"t","o","S","t","r","i","n","g">>,
    <<"v","a","l","u","e","O","f">>,
    <<"_","_","p","r","o","t","o","_","_">> }

\* an inherited member, as a value that is no string of the tables
InheritedMember == <<"[inherited]">>

(***************************************************************************)
(* State pricing table.  avgSystemCost in USD, costPerWatt in cents per    *)
(* watt, utilityRate in cents per kWh, laborCostIndex in hundredths,       *)
(* maxSystemSize in tenths of a kW (0: the record has no maxSystemSize;    *)
(* the code tests the field for truthiness).                               *)
(***************************************************************************)
\* a pricing table of one record, stored under a key that is not its state
statePricingMislabelled ==
  (<<"P","R">> :> [state |-> <<"U","S">>, avgSystemCost |-> 20000, costPerWatt |-> 285,
                   utilityRate |-> 15, laborCostIndex |-> 100, maxSystemSize |-> 0])

statePricingTable ==
  (<<"A","L">> :> [state |-> <<"A","L">>, avgSystemCost |-> 18900, costPerWatt |-> 270, utilityRate |-> 13, laborCostIndex |-> 85, maxSystemSize |-> 0]) @@
  (<<"A","K">> :> [state |-> <<"A","K">>, avgSystemCost |-> 23100, costPerWatt |-> 330, utilityRate |-> 23, laborCostIndex |-> 125, maxSystemSize |-> 0]) @@
  (<<"A","Z">> :> [state |-> <<"A","Z">>, avgSystemCost |-> 18200, costPerWatt |-> 260, utilityRate |-> 13, laborCostIndex |-> 95, maxSystemSize |-> 0]) @@
  (<<"A","R">> :> [state |-> <<"A","R">>, avgSystemCost |-> 19600, costPerWatt |-> 280, utilityRate |-> 11, laborCostIndex |-> 85, maxSystemSize |-> 0]) @@
  (<<"C","A">> :> [state |-> <<"C","A">>, avgSystemCost |-> 28000, costPerWatt |-> 400, utilityRate |-> 30, laborCostIndex |-> 135, maxSystemSize |-> 100]) @@
  (<<"C","O">> :> [state |-> <<"C","O">>, avgSystemCost |-> 21000, costPerWatt |-> 300, utilityRate |-> 13, laborCostIndex |-> 105, maxSystemSize |-> 0]) @@
  (<<"C","T">> :> [state |-> <<"C","T">>, avgSystemCost |-> 23800, costPerWatt |-> 340, utilityRate |-> 22, laborCostIndex |-> 115, maxSystemSize |-> 0]) @@
  (<<"D","E">> :> [state |-> <<"D","E">>, avgSystemCost |-> 20300, costPerWatt |-> 290, utilityRate |-> 13, laborCostIndex |-> 105, maxSystemSize |-> 0]) @@
  (<<"D","C">> :> [state |-> <<"D","C">>, avgSystemCost |-> 24500, costPerWatt |-> 350, utilityRate |-> 13, laborCostIndex |-> 120, maxSystemSize |-> 0]) @@
  (<<"F","L">> :> [state |-> <<"F","L">>, avgSystemCost |-> 18900, costPerWatt |-> 270, utilityRate |-> 13, laborCostIndex |-> 95, maxSystemSize |-> 0]) @@
  (<<"G","A">> :> [state |-> <<"G","A">>, avgSystemCost |-> 19600, costPerWatt |-> 280, utilityRate |-> 13, laborCostIndex |-> 90, maxSystemSize |-> 0]) @@
  (<<"H","I">> :> [state |-> <<"H","I">>, avgSystemCost |-> 26600, costPerWatt |-> 380, utilityRate |-> 33, laborCostIndex |-> 140, maxSystemSize |-> 0]) @@
  (<<"I","D">> :> [state |-> <<"I","D">>, avgSystemCost |-> 19600, costPerWatt |-> 280, utilityRate |-> 10, laborCostIndex |-> 90, maxSystemSize |-> 0]) @@
  (<<"I","L">> :> [state |-> <<"I","L">>, avgSystemCost |-> 21700, costPerWatt |-> 310, utilityRate |-> 13, laborCostIndex |-> 105, maxSystemSize |-> 0]) @@
  (<<"I","N">> :> [state |-> <<"I","N">>, avgSystemCost |-> 20300, costPerWatt |-> 290, utilityRate |-> 12, laborCostIndex |-> 95, maxSystemSize |-> 0]) @@
  (<<"I","A">> :> [state |-> <<"I","A">>, avgSystemCost |-> 20300, costPerWatt |-> 290, utilityRate |-> 12, laborCostIndex |-> 95, maxSystemSize |-> 0]) @@
  (<<"K","S">> :> [state |-> <<"K","S">>, avgSystemCost |-> 19600, costPerWatt |-> 280, utilityRate |-> 13, laborCostIndex |-> 90, maxSystemSize |-> 0]) @@
  (<<"K","Y">> :> [state |-> <<"K","Y">>, avgSystemCost |-> 19600, costPerWatt |-> 280, utilityRate |-> 11, laborCostIndex |-> 85, maxSystemSize |-> 0]) @@
  (<<"L","A">> :> [state |-> <<"L","A">>, avgSystemCost |-> 19600, costPerWatt |-> 280, utilityRate |-> 11, laborCostIndex |-> 90, maxSystemSize |-> 0]) @@
  (<<"M","E">> :> [state |-> <<"M","E">>, avgSystemCost |-> 22400, costPerWatt |-> 320, utilityRate |-> 17, laborCostIndex |-> 110, maxSystemSize |-> 0]) @@
  (<<"M","D">> :> [state |-> <<"M","D">>, avgSystemCost |-> 21700, costPerWatt |-> 310, utilityRate |-> 13, laborCostIndex |-> 110, maxSystemSize |-> 0]) @@
  (<<"M","A">> :> [state |-> <<"M","A">>, avgSystemCost |-> 24500, costPerWatt |-> 350, utilityRate |-> 23, laborCostIndex |-> 120, maxSystemSize |-> 0]) @@
  (<<"M","I">> :> [state |-> <<"M","I">>, avgSystemCost |-> 21000, costPerWatt |-> 300, utilityRate |-> 17, laborCostIndex |-> 100, maxSystemSize |-> 0]) @@
  (<<"M","N">> :> [state |-> <<"M","N">>, avgSystemCost |-> 21700, costPerWatt |-> 310, utilityRate |-> 13, laborCostIndex |-> 105, maxSystemSize |-> 0]) @@
  (<<"M","S">> :> [state |-> <<"M","S">>, avgSystemCost |-> 18900, costPerWatt |-> 270, utilityRate |-> 12, laborCostIndex |-> 85, maxSystemSize |-> 0]) @@
  (<<"M","O">> :> [state |-> <<"M","O">>, avgSystemCost |-> 19600, costPerWatt |-> 280, utilityRate |-> 11, laborCostIndex |-> 90, maxSystemSize |-> 0]) @@
  (<<"M","T">> :> [state |-> <<"M","T">>, avgSystemCost |-> 20300, costPerWatt |-> 290, utilityRate |-> 11, laborCostIndex |-> 95, maxSystemSize |-> 0]) @@
  (<<"N","E">> :> [state |-> <<"N","E">>, avgSystemCost |-> 19600, costPerWatt |-> 280, utilityRate |-> 11, laborCostIndex |-> 90, maxSystemSize |-> 0]) @@
  (<<"N","V">> :> [state |-> <<"N","V">>, avgSystemCost |-> 18200, costPerWatt |-> 260, utilityRate |-> 12, laborCostIndex |-> 100, maxSystemSize |-> 0]) @@
  (<<"N","H">> :> [state |-> <<"N","H">>, avgSystemCost |-> 23100, costPerWatt |-> 330, utilityRate |-> 20, laborCostIndex |-> 115, maxSystemSize |-> 0]) @@
  (<<"N","J">> :> [state |-> <<"N","J">>, avgSystemCost |-> 23100, costPerWatt |-> 330, utilityRate |-> 16, laborCostIndex |-> 115, maxSystemSize |-> 0]) @@
  (<<"N","M">> :> [state |-> <<"N","M">>, avgSystemCost |-> 20300, costPerWatt |-> 290, utilityRate |-> 13, laborCostIndex |-> 95, maxSystemSize |-> 0]) @@
  (<<"N","Y">> :> [state |-> <<"N","Y">>, avgSystemCost |-> 24500, costPerWatt |-> 350, utilityRate |-> 22, laborCostIndex |-> 125, maxSystemSize |-> 0]) @@
  (<<"N","C">> :> [state |-> <<"N","C">>, avgSystemCost |-> 19600, costPerWatt |-> 280, utilityRate |-> 12, laborCostIndex |-> 90, maxSystemSize |-> 0]) @@
  (<<"N","D">> :> [state |-> <<"N","D">>, avgSystemCost |-> 20300, costPerWatt |-> 290, utilityRate |-> 10, laborCostIndex |-> 95, maxSystemSize |-> 0]) @@
  (<<"O","H">> :> [state |-> <<"O","H">>, avgSystemCost |-> 20300, costPerWatt |-> 290, utilityRate |-> 13, laborCostIndex |-> 95, maxSystemSize |-> 0]) @@
  (<<"O","K">> :> [state |-> <<"O","K">>, avgSystemCost |-> 18900, costPerWatt |-> 270, utilityRate |-> 11, laborCostIndex |-> 85, maxSystemSize |-> 0]) @@
  (<<"O","R">> :> [state |-> <<"O","R">>, avgSystemCost |-> 21700, costPerWatt |-> 310, utilityRate |-> 11, laborCostIndex |-> 110, maxSystemSize |-> 0]) @@
  (<<"P","A">> :> [state |-> <<"P","A">>, avgSystemCost |-> 21700, costPerWatt |-> 310, utilityRate |-> 14, laborCostIndex |-> 100, maxSystemSize |-> 0]) @@
  (<<"P","R">> :> [state |-> <<"P","R">>, avgSystemCost |-> 21000, costPerWatt |-> 300, utilityRate |-> 22, laborCostIndex |-> 90, maxSystemSize |-> 0]) @@
  (<<"R","I">> :> [state |-> <<"R","I">>, avgSystemCost |-> 23800, costPerWatt |-> 340, utilityRate |-> 22, laborCostIndex |-> 115, maxSystemSize |-> 0]) @@
  (<<"S","C">> :> [state |-> <<"S","C">>, avgSystemCost |-> 19600, costPerWatt |-> 280, utilityRate |-> 13, laborCostIndex |-> 90, maxSystemSize |-> 0]) @@
  (<<"S","D">> :> [state |-> <<"S","D">>, avgSystemCost |-> 19600, costPerWatt |-> 280, utilityRate |-> 12, laborCostIndex |-> 90, maxSystemSize |-> 0]) @@
  (<<"T","N">> :> [state |-> <<"T","N">>, avgSystemCost |-> 18900, costPerWatt |-> 270, utilityRate |-> 11, laborCostIndex |-> 85, maxSystemSize |-> 0]) @@
  (<<"T","X">> :> [state |-> <<"T","X">>, avgSystemCost |-> 18200, costPerWatt |-> 260, utilityRate |-> 12, laborCostIndex |-> 90, maxSystemSize |-> 0]) @@
  (<<"U","T">> :> [state |-> <<"U","T">>, avgSystemCost |-> 18900, costPerWatt |-> 270, utilityRate |-> 10, laborCostIndex |-> 95, maxSystemSize |-> 0]) @@
  (<<"V","T">> :> [state |-> <<"V","T">>, avgSystemCost |-> 23100, costPerWatt |-> 330, utilityRate |-> 18, laborCostIndex |-> 110, maxSystemSize |-> 0]) @@
  (<<"V","A">> :> [state |-> <<"V","A">>, avgSystemCost |-> 20300, costPerWatt |-> 290, utilityRate |-> 12, laborCostIndex |-> 100, maxSystemSize |-> 0]) @@
  (<<"W","A">> :> [state |-> <<"W","A">>, avgSystemCost |-> 21000, costPerWatt |-> 300, utilityRate |-> 10, laborCostIndex |-> 115, maxSystemSize |-> 0]) @@
  (<<"W","V">> :> [state |-> <<"W","V">>, avgSystemCost |-> 19600, costPerWatt |-> 280, utilityRate |-> 12, laborCostIndex |-> 85, maxSystemSize |-> 0]) @@
  (<<"W","I">> :> [state |-> <<"W","I">>, avgSystemCost |-> 21000, costPerWatt |-> 300, utilityRate |-> 15, laborCostIndex |-> 100, maxSystemSize |-> 0]) @@
  (<<"W","Y">> :> [state |-> <<"W","Y">>, avgSystemCost |-> 19600, costPerWatt |-> 280, utilityRate |-> 11, laborCostIndex |-> 90, maxSystemSize |-> 0])

\* the record getStatePricing builds for a code that is no key of the table
USAverage ==
  [state |-> <<"U","S">>, avgSystemCost |-> 20000, costPerWatt |-> 285,
   utilityRate |-> 15, laborCostIndex |-> 100, maxSystemSize |-> 0]

(***************************************************************************)
(* SREC state table, in the order the source lists it.  value in USD per   *)
(* SREC, years the eligibility period; notes <<>> and mrets "undefined"    *)
(* stand for an absent field.                                              *)
(***************************************************************************)
SREC_STATES_Table ==
  (<<"D","E">> :> [name |-> "Delaware", program |-> "Delaware SREC", value |-> 30, years |-> 20,
      crossStateEligible |-> <<>>, mrets |-> "undefined",
      notes |-> <<>>]) @@
  (<<"I","L">> :> [name |-> "Illinois", program |-> "Illinois Shines", value |-> 80, years |-> 15,
      crossStateEligible |-> <<>>, mrets |-> "true",
      notes |-> <<"M","-","R","E","T","S"," ","c","o","m","p","l","i","a","n","c","e"," ","r","e","q","u","i","r","e","d">>]) @@
  (<<"I","N">> :> [name |-> "Indiana", program |-> "Indiana SREC", value |-> 20, years |-> 15,
      crossStateEligible |-> <<<<"O","H">>>>, mrets |-> "undefined",
      notes |-> <<>>]) @@
  (<<"K","Y">> :> [name |-> "Kentucky", program |-> "Kentucky SREC", value |-> 15, years |-> 15,
      crossStateEligible |-> <<<<"O","H">>>>, mrets |-> "undefined",
      notes |-> <<>>]) @@
  (<<"M","D">> :> [name |-> "Maryland", program |-> "Maryland SREC", value |-> 65, years |-> 20,
      crossStateEligible |-> <<>>, mrets |-> "undefined",
      notes |-> <<>>]) @@
  (<<"M","A">> :> [name |-> "Massachusetts", program |-> "SMART Program", value |-> 250, years |-> 10,
      crossStateEligible |-> <<>>, mrets |-> "undefined",
      notes |-> <<"S","o","l","a","r"," ","M","a","s","s","a","c","h","u","s","e","t","t","s"," ","R","e","n","e","w","a","b","l","e"," ","T","a","r","g","e","t"," ","p","r","o","g","r","a","m">>]) @@
  (<<"M","I">> :> [name |-> "Michigan", program |-> "Michigan SREC", value |-> 20, years |-> 15,
      crossStateEligible |-> <<<<"O","H">>>>, mrets |-> "undefined",
      notes |-> <<>>]) @@
  (<<"N","J">> :> [name |-> "New Jersey", program |-> "SREC-II", value |-> 125, years |-> 15,
      crossStateEligible |-> <<>>, mrets |-> "undefined",
      notes |-> <<"D","e","c","l","i","n","i","n","g"," ","S","R","E","C"," ","v","a","l","u","e","s"," ","o","v","e","r"," ","t","i","m","e">>]) @@
  (<<"O","H">> :> [name |-> "Ohio", program |-> "Ohio SREC", value |-> 7, years |-> 15,
      crossStateEligible |-> <<<<"P","A">>>>, mrets |-> "undefined",
      notes |-> <<"C","a","n"," ","s","e","l","l"," ","i","n","t","o"," ","P","A"," ","m","a","r","k","e","t"," ","f","o","r"," ","b","e","t","t","e","r"," ","r","e","t","u","r","n","s">>]) @@
  (<<"P","A">> :> [name |-> "Pennsylvania", program |-> "Pennsylvania SREC", value |-> 15, years |-> 15,
      crossStateEligible |-> <<>>, mrets |-> "undefined",
      notes |-> <<"A","c","c","e","p","t","s"," ","S","R","E","C","s"," ","f","r","o","m"," ","O","H",","," ","I","N",","," ","K","Y",","," ","W","V">>]) @@
  (<<"V","A">> :> [name |-> "Virginia", program |-> "Virginia SREC", value |-> 50, years |-> 15,
      crossStateEligible |-> <<>>, mrets |-> "undefined",
      notes |-> <<>>]) @@
  (<<"D","C">> :> [name |-> "Washington DC", program |-> "DC SREC", value |-> 350, years |-> 15,
      crossStateEligible |-> <<>>, mrets |-> "undefined",
      notes |-> <<"H","i","g","h","e","s","t"," ","S","R","E","C"," ","v","a","l","u","e","s"," ","n","a","t","i","o","n","a","l","l","y">>]) @@
  (<<"W","V">> :> [name |-> "West Virginia", program |-> "WV SREC", value |-> 15, years |-> 15,
      crossStateEligible |-> <<<<"O","H">>, <<"P","A">>>>, mrets |-> "undefined",
      notes |-> <<>>])

\* Object.entries(SREC_STATES) enumerates the keys in insertion order
SREC_STATES_Order ==
  << <<"D","E">>, <<"I","L">>, <<"I","N">>, <<"K","Y">>, <<"M","D">>, <<"M","A">>,
     <<"M","I">>, <<"N","J">>, <<"O","H">>, <<"P","A">>, <<"V","A">>, <<"D","C">>,
     <<"W","V">> >>

\* state names (lower case) to state codes
STATE_CODES ==
  (<<"d","e","l","a","w","a","r","e">> :> <<"D","E">>) @@
  (<<"i","l","l","i","n","o","i","s">> :> <<"I","L">>) @@
  (<<"i","n","d","i","a","n","a">> :> <<"I","N">>) @@
  (<<"k","e","n","t","u","c","k","y">> :> <<"K","Y">>) @@
  (<<"m","a","r","y","l","a","n","d">> :> <<"M","D">>) @@
  (<<"m","a","s","s","a","c","h","u","s","e","t","t","s">> :> <<"M","A">>) @@
  (<<"m","i","c","h","i","g","a","n">> :> <<"M","I">>) @@
  (<<"n","e","w"," ","j","e","r","s","e","y">> :> <<"N","J">>) @@
  (<<"o","h","i","o">> :> <<"O","H">>) @@
  (<<"p","e","n","n","s","y","l","v","a","n","i","a">> :> <<"P","A">>) @@
  (<<"v","i","r","g","i","n","i","a">> :> <<"V","A">>) @@
  (<<"w","a","s","h","i","n","g","t","o","n"," ","d","c">> :> <<"D","C">>) @@
  (<<"d","i","s","t","r","i","c","t"," ","o","f"," ","c","o","l","u","m","b","i","a">> :> <<"D","C">>) @@
  (<<"w","e","s","t"," ","v","i","r","g","i","n","i","a">> :> <<"W","V">>)

(***************************************************************************)
(* State                                                                   *)
(***************************************************************************)
VARIABLES
  statePricing,   \* the module-level pricing table object
  SREC_STATES,    \* the module-level SREC table object
  API_KEY,        \* NRELPVWattsAPI.API_KEY: TRUE when the credential is configured
  pc,             \* per invocation of calculate: where it is
  input,          \* per invocation: the SolarCalculationInput it was given
  systemSize,     \* per invocation: the local systemSize
  requests,       \* per invocation: outbound irradiance requests issued so far
  system_capacity, \* per invocation: the system_capacity of the request issued
  response,       \* per invocation: what the provider answered
  pvwattsData,    \* per invocation: what getSystemProduction resolved to
  result,         \* per invocation: the SolarCalculationResult returned
  OPENEI_API_KEY, \* OpenEIUtilityAPI.API_KEY: TRUE when the credential is configured
  utilityPc,      \* getUtilityRates: where the invocation is
  utilityCall,    \* getUtilityRates: its arguments and the answers it received
  consulted,      \* getUtilityRates: the sources consulted so far, in order
  utilityInfo,    \* getUtilityRates: the UtilityInfo returned
  formState,      \* LeadCaptureForm: 'form', 'submitting', 'submitted' or 'error'
  formData,       \* LeadCaptureForm: the name and the email typed
  errors,         \* LeadCaptureForm: the fields that carry a validation error
  posts,          \* LeadCaptureForm: the lead POSTs issued, with their outcomes
  onSubmitCalls,  \* LeadCaptureForm: the arguments of the onSubmit callback's calls
  op,             \* the exported function last called directly
  arg,            \* its arguments
  ret             \* what it returned

vars == <<statePricing, SREC_STATES, API_KEY, pc, input, systemSize, requests,
          system_capacity, response, pvwattsData, result, OPENEI_API_KEY, utilityPc,
          utilityCall, consulted, utilityInfo, formState, formData, errors, posts,
          onSubmitCalls, op, arg, ret>>

tables == <<statePricing, SREC_STATES>>

callVars == <<op, arg, ret>>

utilityVars == <<OPENEI_API_KEY, utilityPc, utilityCall, consulted, utilityInfo>>

formVars == <<formState, formData, errors, posts, onSubmitCalls>>

invocationVars == <<pc, input, systemSize, requests, system_capacity, response, pvwattsData,
                    result>>

(***************************************************************************)
(* State reference tables                                                  *)
(***************************************************************************)
\* obj[key] is truthy: key is an own key or an inherited member
HasMember(obj, key) == key \in DOMAIN obj \/ key \in ObjectPrototypeKeys

\* obj[key]
Member(obj, key) == IF key \in DOMAIN obj THEN obj[key] ELSE InheritedMember

\* getStatePricing looking the code up as given, without toUpperCase
getStatePricingCaseSensitive(stateCode) ==
  IF HasMember(statePricing, stateCode) THEN Member(statePricing, stateCode) ELSE USAverage

getStatePricing(stateCode) ==
  LET key == toUpperCase(stateCode)
  IN  IF HasMember(statePricing, key) THEN Member(statePricing, key) ELSE USAverage

\* the system cost at the flat rate of 3.00 USD per watt, whatever the state
getSystemCostFlatRate(stateCode, systemSizeKW) ==
  Mul(Mul(systemSizeKW, Fin(1000)), Fin(3))

\* Math.round(systemSizeKW * 1000 * costPerWatt), in USD
getSystemCost(stateCode, systemSizeKW) ==
  Round(Mul(Mul(systemSizeKW, Fin(1000)),
            Rat(getStatePricing(stateCode).costPerWatt, 100)))

isSRECState(stateCode) == HasMember(SREC_STATES, stateCode)

\* what getSRECData returns for a code without a record: null
NullSRECData ==
  [name |-> "null", program |-> "null", value |-> 0, years |-> 0,
   crossStateEligible |-> <<>>, mrets |-> "undefined", notes |-> <<>>]

\* an inherited member read as if it were a record of the SREC table: every
\* field of it is undefined
InheritedSRECData ==
  [name |-> "[inherited]", program |-> "undefined", value |-> 0, years |-> 0,
   crossStateEligible |-> <<>>, mrets |-> "undefined", notes |-> <<>>]

\* SREC_STATES[stateCode] || null
getSRECData(stateCode) ==
  IF stateCode \in DOMAIN SREC_STATES THEN SREC_STATES[stateCode]
  ELSE IF stateCode \in ObjectPrototypeKeys THEN InheritedSRECData
  ELSE NullSRECData

\* [...new Set(options)]: the first occurrence of each element, in order
RECURSIVE Dedupe(_)
Dedupe(s) ==
  IF s = <<>> THEN <<>>
  ELSE LET init == Dedupe(SubSeq(s, 1, Len(s) - 1))
           last == s[Len(s)]
       IN  IF \E i \in 1..Len(init) : init[i] = last THEN init ELSE Append(init, last)

\* the codes, in table order from position i on, whose notes mention stateCode
RECURSIVE AcceptingStates(_, _)
AcceptingStates(stateCode, i) ==
  IF i > Len(SREC_STATES_Order) THEN <<>>
  ELSE LET code == SREC_STATES_Order[i]
           rest == AcceptingStates(stateCode, i + 1)
       IN  IF code \in DOMAIN SREC_STATES /\ code # stateCode
              /\ includes(SREC_STATES[code].notes, stateCode)
             THEN <<code>> \o rest
             ELSE rest

\* getCrossStateOptions returning the options as collected, duplicates kept
getCrossStateOptionsWithDuplicates(stateCode) ==
  IF ~HasMember(SREC_STATES, stateCode) THEN <<>>
  ELSE <<stateCode>> \o getSRECData(stateCode).crossStateEligible
         \o AcceptingStates(stateCode, 1)

getCrossStateOptions(stateCode) ==
  IF ~HasMember(SREC_STATES, stateCode) THEN <<>>
  ELSE Dedupe(<<stateCode>> \o getSRECData(stateCode).crossStateEligible
              \o AcceptingStates(stateCode, 1))

(***************************************************************************)
(* SRECCalculator                                                          *)
(***************************************************************************)
\* normalizeStateCode passing a two-letter code through without toUpperCase
normalizeStateCodeCaseSensitive(state) ==
  IF state = <<>> \/ state = Undefined THEN Undefined
  ELSE IF Len(state) = 2 THEN state
  ELSE LET normalized == trim(toLowerCase(state))
       IN  IF normalized \in DOMAIN STATE_CODES THEN STATE_CODES[normalized]
           ELSE IF normalized \in ObjectPrototypeKeys THEN InheritedMember
           ELSE Undefined

\* the state code for a state input, or Undefined (the code's null)
normalizeStateCode(state) ==
  IF state = <<>> \/ state = Undefined THEN Undefined
  ELSE IF Len(state) = 2 THEN toUpperCase(state)
  ELSE LET normalized == trim(toLowerCase(state))
       IN  IF normalized \in DOMAIN STATE_CODES THEN STATE_CODES[normalized]
           ELSE IF normalized \in ObjectPrototypeKeys THEN InheritedMember
           ELSE Undefined

\* a default result that reports the certificates of an ineligible state
defaultResultWithSRECs(annualProductionKWH) ==
  [isEligible |-> FALSE, state |-> Undefined, stateName |-> "undefined",
   programName |-> "undefined", annualProduction |-> annualProductionKWH,
   annualSRECs |-> Div(annualProductionKWH, Fin(1000)), srecValue |-> Fin(0),
   annualIncome |-> Fin(0), lifetimeIncome |-> Fin(0), eligibilityYears |-> Fin(0),
   monthlyIncome |-> Fin(0), crossStateOptions |-> Undefined, notes |-> Undefined,
   mrets |-> "undefined"]

defaultResult(annualProductionKWH) ==
  [isEligible |-> FALSE, state |-> Undefined, stateName |-> "undefined",
   programName |-> "undefined", annualProduction |-> annualProductionKWH,
   annualSRECs |-> Fin(0), srecValue |-> Fin(0), annualIncome |-> Fin(0),
   lifetimeIncome |-> Fin(0), eligibilityYears |-> Fin(0), monthlyIncome |-> Fin(0),
   crossStateOptions |-> Undefined, notes |-> Undefined, mrets |-> "undefined"]

\* 1 SREC = 1,000 kWh
AnnualSRECs(annualProductionKWH) == Div(annualProductionKWH, Fin(1000))

\* the annual income before rounding
AnnualIncome(annualSRECs, srecData) == Mul(annualSRECs, Fin(srecData.value))

\* the lifetime income taken from the rounded annual income
LifetimeIncomeFromRounded(annualIncome, srecData) ==
  Mul(Round(annualIncome), Fin(srecData.years))

\* the lifetime income before rounding
LifetimeIncome(annualIncome, srecData) == Mul(annualIncome, Fin(srecData.years))

calculateSRECIncome(_systemSizeKW, annualProductionKWH, state) ==
  LET stateCode == normalizeStateCode(state)
  IN  IF stateCode = Undefined \/ ~isSRECState(stateCode)
        THEN defaultResult(annualProductionKWH)
      ELSE IF getSRECData(stateCode) = NullSRECData
        THEN defaultResult(annualProductionKWH)
      ELSE
        LET srecData == getSRECData(stateCode)
            annualSRECs == AnnualSRECs(annualProductionKWH)
            annualIncome == AnnualIncome(annualSRECs, srecData)
            lifetimeIncome == LifetimeIncome(annualIncome, srecData)
            crossStateOptions == getCrossStateOptions(stateCode)
        IN  [isEligible |-> TRUE, state |-> stateCode, stateName |-> srecData.name,
             programName |-> srecData.program,
             annualProduction |-> annualProductionKWH,
             annualSRECs |-> Div(Round(Mul(annualSRECs, Fin(10))), Fin(10)),
             srecValue |-> Fin(srecData.value),
             annualIncome |-> Round(annualIncome),
             lifetimeIncome |-> Round(lifetimeIncome),
             eligibilityYears |-> Fin(srecData.years),
             monthlyIncome |-> Round(Div(annualIncome, Fin(12))),
             crossStateOptions |->
               IF Len(crossStateOptions) > 1 THEN crossStateOptions ELSE Undefined,
             notes |-> IF srecData.notes # <<>> THEN srecData.notes ELSE Undefined,
             mrets |-> srecData.mrets]

\* `Best value: Sell ${homeState} SRECs in ${stateOption} market`
BestValueNote(homeState, stateOption) ==
  <<"B","e","s","t"," ","v","a","l","u","e",":"," ","S","e","l","l"," ">> \o homeState
    \o <<" ","S","R","E","C","s"," ","i","n"," ">> \o stateOption \o <<" ","m","a","r","k","e","t">>

\* the loop of calculateBestSRECOption from option i on; ties: the later
\* option replaces the best one
RECURSIVE BestOptionLoopLastWins(_, _, _, _, _, _, _)
BestOptionLoopLastWins(systemSizeKW, annualProductionKWH, homeState, homeCode, options, i, bestResult) ==
  IF i > Len(options) THEN bestResult
  ELSE CHOOSE r \in
    { BestOptionLoopLastWins(systemSizeKW, annualProductionKWH, homeState, homeCode,
                             options, i + 1, b) :
      b \in { IF options[i] = homeCode THEN bestResult
              ELSE LET optionResult ==
                         calculateSRECIncome(systemSizeKW, annualProductionKWH, options[i])
                   IN  IF Le(bestResult.annualIncome, optionResult.annualIncome)
                         THEN [optionResult EXCEPT
                                 !.notes = BestValueNote(homeState, options[i])]
                         ELSE bestResult } } : TRUE

\* the loop of calculateBestSRECOption from option i on
RECURSIVE BestOptionLoop(_, _, _, _, _, _, _)
BestOptionLoop(systemSizeKW, annualProductionKWH, homeState, homeCode, options, i, bestResult) ==
  IF i > Len(options) THEN bestResult
  ELSE CHOOSE r \in
    { BestOptionLoop(systemSizeKW, annualProductionKWH, homeState, homeCode, options,
                     i + 1, b) :
      b \in { IF options[i] = homeCode THEN bestResult
              ELSE LET optionResult ==
                         calculateSRECIncome(systemSizeKW, annualProductionKWH, options[i])
                   IN  IF Gt(optionResult.annualIncome, bestResult.annualIncome)
                         THEN [optionResult EXCEPT
                                 !.notes = BestValueNote(homeState, options[i])]
                         ELSE bestResult } } : TRUE

calculateBestSRECOption(systemSizeKW, annualProductionKWH, homeState) ==
  LET homeStateResult == calculateSRECIncome(systemSizeKW, annualProductionKWH, homeState)
  IN  IF ~homeStateResult.isEligible \/ homeStateResult.crossStateOptions = Undefined
        THEN homeStateResult
        ELSE BestOptionLoop(systemSizeKW, annualProductionKWH, homeState,
                            homeStateResult.state, homeStateResult.crossStateOptions, 1,
                            homeStateResult)

(***************************************************************************)
(* SolarCalculator                                                         *)
(***************************************************************************)
\* 1 - SYSTEM_LOSSES = 1 - 0.14
LossFactor == Rat(86, 100)

\* the residential credit after its expiry
ExpiredITCRate == Fin(0)

\* a federal tax credit of the whole system cost
FullITCRate == Fin(1)

ITC_RATE == Rat(30, 100)

COST_PER_WATT == Fin(3)

\* 0.005, in millionths
DEGRADATION_RATE == 5000

\* the peak sun hours taken from the signed latitude, without Math.abs
estimatePeakSunHoursSigned(latitude) ==
  IF Le(latitude, Fin(25)) THEN Rat(55, 10)
  ELSE IF Le(latitude, Fin(35)) THEN Fin(5)
  ELSE IF Le(latitude, Fin(40)) THEN Rat(45, 10)
  ELSE IF Le(latitude, Fin(45)) THEN Fin(4)
  ELSE Rat(35, 10)

estimatePeakSunHours(latitude) ==
  LET absLat == MathAbs(latitude)
  IN  IF Le(absLat, Fin(25)) THEN Rat(55, 10)
      ELSE IF Le(absLat, Fin(35)) THEN Fin(5)
      ELSE IF Le(absLat, Fin(40)) THEN Rat(45, 10)
      ELSE IF Le(absLat, Fin(45)) THEN Fin(4)
      ELSE Rat(35, 10)

\* the system size in kW, rounded to one decimal
estimateSystemSize(inp) ==
  LET annualUsage == Mul(Div(inp.monthlyBill, inp.utilityRate), Fin(12))
      peakSunHours == estimatePeakSunHours(inp.location.latitude)
      dailyUsage == Div(annualUsage, Fin(365))
      size == Div(dailyUsage, Mul(peakSunHours, LossFactor))
  IN  Div(Round(Mul(size, Fin(10))), Fin(10))

\* input.state || input.location.state: "" and undefined are falsy
ResolvedState(inp) ==
  IF inp.state # Undefined /\ inp.state # <<>> THEN inp.state ELSE inp.location.state

HasState(inp) == ResolvedState(inp) # Undefined /\ ResolvedState(inp) # <<>>

\* a size limit that turns an estimate above the cap into no system at all
ClampedSystemSizeRejectsOversize(inp) ==
  LET size == estimateSystemSize(inp)
  IN  IF HasState(inp)
        THEN LET max == Rat(getStatePricing(ResolvedState(inp)).maxSystemSize, 10)
             IN  IF Truthy(max) /\ Gt(size, max) THEN Fin(0) ELSE size
        ELSE size

\* the estimate with no size limit applied
UnclampedSystemSize(inp) == estimateSystemSize(inp)

\* a system size limited to the panels that fit the roof, at 100 square
\* feet per kW
ClampedSystemSizeLimitedByRoof(inp) ==
  LET size == estimateSystemSize(inp)
      fits == Div(inp.roofArea, Fin(100))
  IN  IF Gt(size, fits) THEN fits ELSE size

\* the state-specific system size limit applied to the estimate
ClampedSystemSize(inp) ==
  LET size == estimateSystemSize(inp)
  IN  IF HasState(inp)
        THEN LET max == Rat(getStatePricing(ResolvedState(inp)).maxSystemSize, 10)
             IN  IF Truthy(max) /\ Gt(size, max) THEN max ELSE size
        ELSE size

\* the fallback estimate of the annual production in kWh
calculateAnnualProduction(size, location) ==
  LET peakSunHours == estimatePeakSunHours(location.latitude)
      dailyProduction == Mul(Mul(size, peakSunHours), LossFactor)
  IN  Round(Mul(dailyProduction, Fin(365)))

(***************************************************************************)
(* What getSystemProduction can resolve to.  json names the shape of the   *)
(* parsed body: "null" (the literal null, also what a caught failure or a  *)
(* missing credential gives), "noOutputs" (an object without outputs),     *)
(* "noAcAnnual" (outputs without ac_annual), "number" (ac_annual is the    *)
(* number ac) and "text" (ac_annual is a non-empty string, which is truthy *)
(* and which Math.round converts to the number ac).                        *)
(***************************************************************************)
NullData == [json |-> "null", ac |-> NaN]

\* pvwattsData?.outputs?.ac_annual is truthy
AcAnnualTruthy(data) ==
  \/ data.json = "number" /\ Truthy(data.ac)
  \/ data.json = "text"

\* calculateRealTimeProduction, after getSystemProduction has resolved to data
ProductionFrom(data, size, location) ==
  IF AcAnnualTruthy(data) THEN Round(data.ac)
  ELSE calculateAnnualProduction(size, location)

\* x * y for a fixed-point factor y in millionths, the product taken in
\* parts so that it stays within 32 bits
MulFixed(x, y) ==
  CHOOSE r \in
    { (u \div 1000) * (v \div 1000)
        + ((u \div 1000) * (v % 1000) + (u % 1000) * (v \div 1000)
           + ((u % 1000) * (v % 1000)) \div 1000) \div 1000 : u \in {x}, v \in {y} } : TRUE

\* Math.pow(base, e) for a base in millionths and an integer e >= 0
RECURSIVE PowFixed(_, _)
PowFixed(base, e) ==
  CHOOSE r \in
    { IF n = 0 THEN 1000000 ELSE MulFixed(PowFixed(base, n - 1), base) : n \in {e} } : TRUE

\* the loop of calculateLifetimeSavings from year on, in cents.  The yearly
\* factors are carried in fixed point (millionths), so the total can differ
\* from the floating-point total by a few cents.
RECURSIVE LifetimeLoop(_, _, _, _, _)
LifetimeLoop(cents, year, years, degradationRate, escalationRate) ==
  CHOOSE r \in
    { IF y > years THEN 0
      ELSE LET degradationFactor == PowFixed(1000000 - degradationRate, y - 1)
               escalationFactor == PowFixed(1000000 + escalationRate, y - 1)
           IN  MulFixed(MulFixed(c, degradationFactor), escalationFactor)
               + LifetimeLoop(c, y + 1, years, degradationRate, escalationRate) :
      c \in {cents}, y \in {year} } : TRUE

\* annualSavings a number, years an integer, the rates in millionths
calculateLifetimeSavings(annualSavings, years, degradationRate, escalationRate) ==
  IF years < 1 THEN Fin(0)
  ELSE IF ~IsFinite(annualSavings) THEN annualSavings
  ELSE Round(Rat(LifetimeLoop(Round(Mul(annualSavings, Fin(100))).n, 1, years,
                              degradationRate, escalationRate), 100))

\* calculate from the production estimate on is written in four steps, each
\* binding the values the next one uses, so that a value is computed once.

\* the annual savings with the SREC income left out
TotalAnnualSavingsElectricityOnly(inp, srecData, annualElectricitySavings) ==
  annualElectricitySavings

\* electricity savings, plus the SREC income of an eligible state
TotalAnnualSavings(inp, srecData, annualElectricitySavings) ==
  IF HasState(inp) /\ srecData.isEligible
    THEN Add(annualElectricitySavings, srecData.annualIncome)
    ELSE annualElectricitySavings

\* the payback period counted in months
PaybackPeriodInMonths(netCost, totalAnnualSavings) ==
  Div(Mul(netCost, Fin(12)), totalAnnualSavings)

\* a payback period that is 0 when nothing is saved
PaybackPeriodGuarded(netCost, totalAnnualSavings) ==
  IF Gt(totalAnnualSavings, Fin(0)) THEN Div(netCost, totalAnnualSavings) ELSE Fin(0)

\* netCost / totalAnnualSavings, in years
PaybackPeriod(netCost, totalAnnualSavings) == Div(netCost, totalAnnualSavings)

\* the last step: incentives, totals, payback, return on investment and the
\* result object
FinishResult(inp, size, annualProduction, systemCost, srecData, annualElectricitySavings, twentyYearElectricitySavings, twentyYearSRECIncome) ==
  LET federal == Mul(systemCost, ITC_RATE)
      stateIncentive == Mul(systemCost, Rat(5, 100))
      utility == Mul(size, Fin(100))
      total == Add(Add(federal, stateIncentive), utility)
      netCost == Sub(systemCost, total)
      eligible == HasState(inp) /\ srecData.isEligible
      totalAnnualSavings == TotalAnnualSavings(inp, srecData, annualElectricitySavings)
      paybackPeriod == PaybackPeriod(netCost, totalAnnualSavings)
      totalTwentyYearSavings ==
        IF eligible THEN Add(twentyYearElectricitySavings, twentyYearSRECIncome)
        ELSE twentyYearElectricitySavings
      roiPercent == Mul(Div(Sub(totalTwentyYearSavings, netCost), netCost), Fin(100))
      co2Offset == Div(Mul(Mul(annualProduction, Fin(20)), Rat(7, 10000)), Fin(1000))
  IN  [systemSize |-> size,
       systemCost |-> systemCost,
       annualProduction |-> annualProduction,
       annualSavings |-> annualElectricitySavings,
       paybackPeriod |-> paybackPeriod,
       twentyYearSavings |-> twentyYearElectricitySavings,
       co2Offset |-> co2Offset,
       roiPercent |-> roiPercent,
       incentives |-> [federal |-> federal, state |-> stateIncentive,
                       utility |-> utility, total |-> total],
       hasSrecData |-> HasState(inp),
       srecData |-> srecData,
       totalAnnualSavings |-> totalAnnualSavings,
       totalTwentyYearSavings |-> totalTwentyYearSavings]

\* the twenty-year electricity savings and SREC income
FinishLifetime(inp, size, annualProduction, systemCost, srecData, annualElectricitySavings) ==
  CHOOSE r \in
    { FinishResult(inp, size, annualProduction, systemCost, srecData,
                   annualElectricitySavings, e, i) :
      e \in { calculateLifetimeSavings(annualElectricitySavings, 20,
                                       DEGRADATION_RATE, 30000) },
      i \in { IF HasState(inp) /\ srecData.isEligible
                THEN calculateLifetimeSavings(srecData.annualIncome,
                                              MathMin(srecData.eligibilityYears, Fin(20)).n,
                                              DEGRADATION_RATE, 0)
              ELSE Fin(0) } } : TRUE

\* the system cost, the annual electricity savings and the SREC income
FinishPriced(inp, size, annualProduction) ==
  CHOOSE r \in
    { FinishLifetime(inp, size, annualProduction, c, d, e) :
      c \in { IF HasState(inp) THEN getSystemCost(ResolvedState(inp), size)
              ELSE Mul(Mul(size, Fin(1000)), COST_PER_WATT) },
      d \in { IF HasState(inp)
                THEN calculateSRECIncome(size, annualProduction, ResolvedState(inp))
              ELSE defaultResult(annualProduction) },
      e \in { Mul(annualProduction, inp.utilityRate) } } : TRUE

\* calculate, from the production estimate on
Finish(inp, size, annualProduction) ==
  CHOOSE r \in
    { FinishPriced(inp, s, a) : s \in {size}, a \in {annualProduction} } : TRUE

(***************************************************************************)
(* Inputs                                                                  *)
(***************************************************************************)
MaxProductionSteps == 4

Str_NJ == <<"N","J">>

Str_nj == <<"n","j">>

Str_ca == <<"c","a">>

Str_CA == <<"C","A">>

Str_NY == <<"N","Y">>

Str_ZZ == <<"Z","Z">>

Latitudes == {Fin(-33), Rat(407128, 10000), Fin(47)}

MonthlyBills == {Fin(0), Fin(120), Fin(500)}

UtilityRates == {Fin(0), Rat(15, 100)}

InputStates == {Undefined, <<>>, Str_NJ, Str_ca, Str_ZZ}

LocationStates == {Undefined, Str_NY}

Inputs ==
  { [location |-> [address |-> "123 Test St", latitude |-> lat,
                   longitude |-> Rat(-74006, 1000), state |-> ls],
     monthlyBill |-> b, roofArea |-> Fin(1000), utilityRate |-> r, state |-> s] :
    lat \in Latitudes, b \in MonthlyBills, r \in UtilityRates,
    s \in InputStates, ls \in LocationStates }

\* the inputs of the invocations that run concurrently
ConcurrentInputs ==
  { inp \in Inputs :
      /\ inp.location.latitude = Rat(407128, 10000)
      /\ inp.monthlyBill \in {Fin(120), Fin(500)}
      /\ inp.utilityRate = Rat(15, 100)
      /\ inp.state \in {Str_NJ, Str_ca}
      /\ inp.location.state = Undefined }

FetchOutcomes == {"rejected", "non2xx", "ok"}

\* response.json() rejects
InvalidJson == [json |-> "invalid", ac |-> NaN]

Bodies ==
  { InvalidJson, NullData,
    [json |-> "noOutputs", ac |-> NaN],
    [json |-> "noAcAnnual", ac |-> NaN],
    [json |-> "number", ac |-> Fin(0)],
    [json |-> "number", ac |-> Fin(9180)],
    [json |-> "number", ac |-> Rat(18361, 2)],
    [json |-> "text", ac |-> NaN] }

NoResponse == [fetch |-> "none", body |-> NullData]

NoInput == CHOOSE inp \in Inputs : TRUE

Procs == {1, 2}

(***************************************************************************)
(* SolarCalculator.calculate, one action per stretch between suspensions   *)
(***************************************************************************)
\* calculate keeping the system size in one slot shared by all invocations
CalculateSharedSize(p, inp) ==
  /\ pc[p] = "idle"
  /\ input' = [input EXCEPT ![p] = inp]
  /\ systemSize' = [q \in Procs |-> ClampedSystemSize(inp)]
  /\ IF ~API_KEY
       THEN /\ pvwattsData' = [pvwattsData EXCEPT ![p] = NullData]
            /\ pc' = [pc EXCEPT ![p] = "resume"]
            /\ UNCHANGED <<requests, system_capacity>>
       ELSE /\ requests' = [requests EXCEPT ![p] = @ + 1]
            /\ system_capacity' = [system_capacity EXCEPT ![p] = systemSize'[p]]
            /\ pc' = [pc EXCEPT ![p] = "fetch"]
            /\ UNCHANGED pvwattsData
  /\ UNCHANGED <<tables, utilityVars, formVars, API_KEY, response, result, callVars>>

\* calculate sending the unclamped estimate to the irradiance provider and
\* applying the size limit afterwards
CalculateClampsAfterRequest(p, inp) ==
  /\ pc[p] = "idle"
  /\ input' = [input EXCEPT ![p] = inp]
  /\ systemSize' = [systemSize EXCEPT ![p] = ClampedSystemSize(inp)]
  /\ IF ~API_KEY
       THEN /\ pvwattsData' = [pvwattsData EXCEPT ![p] = NullData]
            /\ pc' = [pc EXCEPT ![p] = "resume"]
            /\ UNCHANGED <<requests, system_capacity>>
       ELSE /\ requests' = [requests EXCEPT ![p] = @ + 1]
            /\ system_capacity' = [system_capacity EXCEPT ![p] = estimateSystemSize(inp)]
            /\ pc' = [pc EXCEPT ![p] = "fetch"]
            /\ UNCHANGED pvwattsData
  /\ UNCHANGED <<tables, utilityVars, formVars, API_KEY, response, result, callVars>>

\* calculate up to the first await: the size estimate, the clamp, and
\* getSystemProduction up to its fetch (or its early return without a key)
Calculate(p, inp) ==
  /\ pc[p] = "idle"
  /\ input' = [input EXCEPT ![p] = inp]
  /\ systemSize' = [systemSize EXCEPT ![p] = ClampedSystemSize(inp)]
  /\ IF ~API_KEY
       THEN /\ pvwattsData' = [pvwattsData EXCEPT ![p] = NullData]
            /\ pc' = [pc EXCEPT ![p] = "resume"]
            /\ UNCHANGED <<requests, system_capacity>>
       ELSE /\ requests' = [requests EXCEPT ![p] = @ + 1]
            /\ system_capacity' = [system_capacity EXCEPT ![p] = systemSize'[p]]
            /\ pc' = [pc EXCEPT ![p] = "fetch"]
            /\ UNCHANGED pvwattsData
  /\ UNCHANGED <<tables, utilityVars, formVars, API_KEY, response, result, callVars>>

\* a fetch whose failure is waited out instead of being caught
FetchSettlesWaits(p, outcome) ==
  /\ pc[p] = "fetch"
  /\ response' = [response EXCEPT ![p].fetch = outcome]
  /\ IF outcome = "ok"
       THEN pc' = [pc EXCEPT ![p] = "json"]
       ELSE UNCHANGED pc
  /\ UNCHANGED <<tables, utilityVars, formVars, API_KEY, input, systemSize, requests, system_capacity, pvwattsData, result,
                 callVars>>

\* the fetch settles: rejected and non-2xx are caught and give null
FetchSettles(p, outcome) ==
  /\ pc[p] = "fetch"
  /\ response' = [response EXCEPT ![p].fetch = outcome]
  /\ IF outcome = "ok"
       THEN /\ pc' = [pc EXCEPT ![p] = "json"]
            /\ UNCHANGED pvwattsData
       ELSE /\ pvwattsData' = [pvwattsData EXCEPT ![p] = NullData]
            /\ pc' = [pc EXCEPT ![p] = "resume"]
  /\ UNCHANGED <<tables, utilityVars, formVars, API_KEY, input, systemSize, requests, system_capacity, result, callVars>>

\* response.json() settles: a rejection is caught and gives null
JsonSettles(p, body) ==
  /\ pc[p] = "json"
  /\ response' = [response EXCEPT ![p].body = body]
  /\ pvwattsData' = [pvwattsData EXCEPT ![p] = IF body = InvalidJson THEN NullData ELSE body]
  /\ pc' = [pc EXCEPT ![p] = "resume"]
  /\ UNCHANGED <<tables, utilityVars, formVars, API_KEY, input, systemSize, requests, system_capacity, result, callVars>>

\* calculateRealTimeProduction resumes and calculate runs to its return
Resume(p) ==
  /\ pc[p] = "resume"
  /\ result' = [result EXCEPT ![p] =
                  Finish(input[p], systemSize[p],
                         ProductionFrom(pvwattsData[p], systemSize[p], input[p].location))]
  /\ pc' = [pc EXCEPT ![p] = "done"]
  /\ UNCHANGED <<tables, utilityVars, formVars, API_KEY, input, systemSize, requests, system_capacity, response, pvwattsData,
                 callVars>>

(***************************************************************************)
(* getUtilityRates.  An answer is what a request came to: kind "rejected"  *)
(* (network error), "non2xx", "invalid" (the body does not parse), "null"  *)
(* (the body is null), and for the real-time provider "noItems",           *)
(* "emptyItems" and "item", for the platform backend "object".  rateKind   *)
(* tells what the rate of the answer is: "absent" (missing or 0),          *)
(* "number", or "text" that parseFloat cannot read; named and sourced tell *)
(* whether it carries a utility name and a source.                         *)
(***************************************************************************)
NoAnswer ==
  [kind |-> "none", rateKind |-> "absent", rate |-> Fin(0), named |-> FALSE, sourced |-> FALSE]

\* a rate that is a text: the backend's answer is handed on as it is
TextRate == [k |-> "text", n |-> 0, d |-> 1]

NoUtilityCall == [lat |-> Fin(0), lng |-> Fin(0), openEI |-> NoAnswer, backend |-> NoAnswer]

NoUtilityInfo == [rate |-> Fin(0), utility_name |-> "", source |-> ""]

\* stateName and utilityProvider of the states that coordinates resolve to
StateLabels ==
  (Str_CA :> [stateName |-> "California", utilityProvider |-> "PG&E"]) @@
  (<<"T","X">> :> [stateName |-> "Texas", utilityProvider |-> "Oncor"]) @@
  (<<"F","L">> :> [stateName |-> "Florida", utilityProvider |-> "Florida Power & Light (FPL)"]) @@
  (Str_NY :> [stateName |-> "New York", utilityProvider |-> "Con Edison"])

\* lo <= x && x <= hi
Within(x, lo, hi) == Le(lo, x) /\ Le(x, hi)

getStateFromCoordinates(lat, lng) ==
  IF Within(lat, Rat(325, 10), Fin(42)) /\ Within(lng, Rat(-1245, 10), Fin(-114))
    THEN Str_CA
  ELSE IF Within(lat, Rat(258, 10), Rat(365, 10)) /\ Within(lng, Rat(-1066, 10), Rat(-935, 10))
    THEN <<"T","X">>
  ELSE IF Within(lat, Rat(244, 10), Fin(31)) /\ Within(lng, Rat(-876, 10), Fin(-80))
    THEN <<"F","L">>
  ELSE IF Within(lat, Rat(405, 10), Fin(45)) /\ Within(lng, Rat(-798, 10), Rat(-719, 10))
    THEN Str_NY
  ELSE <<"D","E","F","A","U","L","T">>

\* the UtilityInfo of the first item of the real-time provider's answer
RealTimeInfo(answer) ==
  [rate |-> CASE answer.rateKind = "absent" -> Rat(15, 100)
              [] answer.rateKind = "number" -> answer.rate
              [] answer.rateKind = "text" -> NaN,
   utility_name |-> IF answer.named THEN "Utility of the answer" ELSE "Local Utility",
   source |-> "OpenEI Real-time Data"]

\* the UtilityInfo of the platform backend's answer
BackendInfo(answer) ==
  [rate |-> CASE answer.rateKind = "absent" -> Rat(15, 100)
              [] answer.rateKind = "number" -> answer.rate
              [] answer.rateKind = "text" -> TextRate,
   utility_name |-> IF answer.named THEN "Utility of the answer" ELSE "Local Utility",
   source |-> IF answer.sourced THEN "Source of the answer" ELSE "Backend API"]

\* the sources consulted after the backend, and the UtilityInfo they give
StateDefault(lat, lng) ==
  LET state == getStateFromCoordinates(lat, lng)
  IN  IF state \in DOMAIN statePricing
        THEN [consulted |-> <<"StateTable">>,
              info |-> [rate |-> Rat(statePricing[state].utilityRate, 100),
                        utility_name |-> StateLabels[state].utilityProvider,
                        source |-> "State Default (" \o StateLabels[state].stateName \o ")"]]
        ELSE [consulted |-> <<"StateTable", "Default">>,
              info |-> [rate |-> Rat(15, 100), utility_name |-> "Local Utility",
                        source |-> "Default Fallback"]]

\* getUtilityRates up to its first request: without a credential the
\* real-time provider gives null and the backend is asked
GetUtilityRates(lat, lng) ==
  /\ utilityPc = "idle"
  /\ utilityCall' = [NoUtilityCall EXCEPT !.lat = lat, !.lng = lng]
  /\ IF OPENEI_API_KEY
       THEN /\ consulted' = <<"OpenEI">>
            /\ utilityPc' = "openEI"
       ELSE /\ consulted' = <<"OpenEI", "Backend">>
            /\ utilityPc' = "backend"
  /\ UNCHANGED <<tables, API_KEY, invocationVars, callVars, formVars, OPENEI_API_KEY,
                 utilityInfo>>

\* the request to the real-time provider settles: a first item is returned,
\* everything else is null and the backend is asked
OpenEISettles(answer) ==
  /\ utilityPc = "openEI"
  /\ utilityCall' = [utilityCall EXCEPT !.openEI = answer]
  /\ IF answer.kind = "item"
       THEN /\ utilityInfo' = RealTimeInfo(answer)
            /\ utilityPc' = "done"
            /\ UNCHANGED consulted
       ELSE /\ consulted' = Append(consulted, "Backend")
            /\ utilityPc' = "backend"
            /\ UNCHANGED utilityInfo
  /\ UNCHANGED <<tables, API_KEY, invocationVars, callVars, formVars, OPENEI_API_KEY>>

\* a request to the backend whose failure is not caught
BackendSettlesUncaught(answer) ==
  /\ utilityPc = "backend"
  /\ utilityCall' = [utilityCall EXCEPT !.backend = answer]
  /\ IF answer.kind = "object"
       THEN /\ utilityInfo' = BackendInfo(answer)
            /\ utilityPc' = "done"
       ELSE /\ utilityPc' = "raised"
            /\ UNCHANGED utilityInfo
  /\ UNCHANGED <<tables, API_KEY, invocationVars, callVars, formVars, OPENEI_API_KEY,
                 consulted>>

\* the request to the backend settles: a 2xx answer with an object is
\* returned, everything else falls through to the state table and the
\* constant default
BackendSettles(answer) ==
  /\ utilityPc = "backend"
  /\ utilityCall' = [utilityCall EXCEPT !.backend = answer]
  /\ IF answer.kind = "object"
       THEN /\ utilityInfo' = BackendInfo(answer)
            /\ UNCHANGED consulted
       ELSE LET default == StateDefault(utilityCall.lat, utilityCall.lng)
            IN  /\ utilityInfo' = default.info
                /\ consulted' = consulted \o default.consulted
  /\ utilityPc' = "done"
  /\ UNCHANGED <<tables, API_KEY, invocationVars, callVars, formVars, OPENEI_API_KEY>>

(***************************************************************************)
(* LeadCaptureForm.  Strings are sequences of characters; errors is the    *)
(* set of the fields that carry a message.                                 *)
(***************************************************************************)
NoFormData == [name |-> <<>>, email |-> <<>>]

\* /^[^\s@]+@[^\s@]+\.[^\s@]+$/
validateEmail(email) ==
  \E i, j \in 1..Len(email) :
    /\ 1 < i
    /\ email[i] = "@"
    /\ i + 1 < j
    /\ j < Len(email)
    /\ email[j] = "."
    /\ \A k \in (1..Len(email)) \ {i} : email[k] \notin {" ", "@"}

\* the newErrors of validateForm
validateForm(data) ==
  {f \in {"name"} : trim(data.name) = <<>>}
    \cup {f \in {"email"} : trim(data.email) = <<>> \/ ~validateEmail(data.email)}

\* the lead POSTs that the model follows
MaxPosts == 3

\* the inputs are rendered, and enabled, unless the form is submitting or
\* submitted
handleInputChange(field, value) ==
  /\ formState \in {"form", "error"}
  /\ formData' = [formData EXCEPT ![field] = value]
  /\ errors' = errors \ {field}
  /\ UNCHANGED <<tables, API_KEY, invocationVars, callVars, utilityVars, formState, posts,
                 onSubmitCalls>>

\* a submit that issues the POST whatever the fields hold
handleSubmitWithoutValidation ==
  /\ formState \in {"form", "error"}
  /\ Len(posts) < MaxPosts
  /\ formState' = "submitting"
  /\ posts' = Append(posts, [body |-> formData, outcome |-> "pending"])
  /\ UNCHANGED <<tables, API_KEY, invocationVars, callVars, utilityVars, formData, errors,
                 onSubmitCalls>>

\* handleSubmit up to its fetch: the form and its button are rendered, and
\* enabled, unless the form is submitting or submitted
handleSubmit ==
  /\ formState \in {"form", "error"}
  /\ errors' = validateForm(formData)
  /\ IF validateForm(formData) # {}
       THEN UNCHANGED <<formState, posts>>
       ELSE /\ Len(posts) < MaxPosts
            /\ formState' = "submitting"
            /\ posts' = Append(posts, [body |-> formData, outcome |-> "pending"])
  /\ UNCHANGED <<tables, API_KEY, invocationVars, callVars, utilityVars, formData,
                 onSubmitCalls>>

\* the POST settles: "ok" is a 2xx answer whose body parses, "unparseable" a
\* 2xx answer whose body does not
LeadPostSettles(outcome) ==
  /\ formState = "submitting"
  /\ posts' = [posts EXCEPT ![Len(posts)].outcome = outcome]
  /\ IF outcome = "ok"
       THEN /\ formState' = "submitted"
            /\ onSubmitCalls' = Append(onSubmitCalls, formData)
       ELSE /\ formState' = "error"
            /\ UNCHANGED onSubmitCalls
  /\ UNCHANGED <<tables, API_KEY, invocationVars, callVars, utilityVars, formData, errors>>

NoResult == Finish(NoInput, Fin(0), Fin(0))

\* the state after construction, with either credential set or not
InitState ==
  /\ statePricing = statePricingTable
  /\ SREC_STATES = SREC_STATES_Table
  /\ API_KEY \in BOOLEAN
  /\ pc = [p \in Procs |-> "idle"]
  /\ input = [p \in Procs |-> NoInput]
  /\ systemSize = [p \in Procs |-> Fin(0)]
  /\ requests = [p \in Procs |-> 0]
  /\ system_capacity = [p \in Procs |-> Fin(0)]
  /\ response = [p \in Procs |-> NoResponse]
  /\ pvwattsData = [p \in Procs |-> NullData]
  /\ result = [p \in Procs |-> NoResult]
  /\ OPENEI_API_KEY \in BOOLEAN
  /\ utilityPc = "idle"
  /\ utilityCall = NoUtilityCall
  /\ consulted = <<>>
  /\ utilityInfo = NoUtilityInfo
  /\ formState = "form"
  /\ formData = NoFormData
  /\ errors = {}
  /\ posts = <<>>
  /\ onSubmitCalls = <<>>
  /\ op = "none"
  /\ arg = <<>>
  /\ ret = <<>>

\* the calculator and the form do not read the credential of the real-time
\* rate provider: it is left unset
Init == InitState /\ ~OPENEI_API_KEY

\* one invocation of calculate
Next ==
  \/ \E inp \in Inputs : Calculate(1, inp)
  \/ \E outcome \in FetchOutcomes : FetchSettles(1, outcome)
  \/ \E body \in Bodies : JsonSettles(1, body)
  \/ Resume(1)

Spec == Init /\ [][Next]_vars

\* the event loop runs every settled promise's continuation, and the
\* outbound request is assumed to settle
FairSpec ==
  /\ Spec
  /\ WF_vars(\E outcome \in FetchOutcomes : FetchSettles(1, outcome))
  /\ WF_vars(\E body \in Bodies : JsonSettles(1, body))
  /\ WF_vars(Resume(1))

\* two invocations of calculate, interleaved at their suspension points
NextConcurrent ==
  \E p \in Procs :
    \/ \E inp \in ConcurrentInputs : Calculate(p, inp)
    \/ \E outcome \in FetchOutcomes : FetchSettles(p, outcome)
    \/ \E body \in Bodies : JsonSettles(p, body)
    \/ Resume(p)

SpecConcurrent == Init /\ [][NextConcurrent]_vars

\* monthly bills from 0 USD in steps of 12.50 USD, three bills 0.50 USD
\* apart, the bill whose estimate is 10.0 kW, the size limit of CA, and a
\* bill whose estimate is above it
MaxBillSteps == 12

SizingBills ==
  {Rat(25 * k, 2) : k \in 0..MaxBillSteps} \cup {Fin(120), Rat(241, 2), Fin(121), Fin(157), Fin(200)}

\* inputs that differ in the monthly bill, for a state with a size limit
\* (CA), a state without one (NJ) and no state
SizingInputs ==
  { [location |-> [address |-> "123 Test St", latitude |-> Rat(407128, 10000),
                   longitude |-> Rat(-74006, 1000), state |-> Undefined],
     monthlyBill |-> b, roofArea |-> Fin(1000), utilityRate |-> Rat(15, 100), state |-> s] :
    b \in SizingBills, s \in {Str_CA, Str_NJ, Undefined} }

\* two invocations without a credential: each runs to its return on the
\* fallback path
InitNoCredential == Init /\ ~API_KEY

NextSizing ==
  \E p \in Procs :
    \/ \E inp \in SizingInputs : Calculate(p, inp)
    \/ Resume(p)

SpecSizing == InitNoCredential /\ [][NextSizing]_vars

(***************************************************************************)
(* Direct calls of the exported functions                                  *)
(***************************************************************************)
Letters == {UpperLetters[i] : i \in 1..26} \cup {LowerLetters[i] : i \in 1..26}

TwoLetterCodes == {<<a, b>> : a \in Letters, b \in Letters}

\* state inputs that are no two-letter codes
OtherStateInputs ==
  { <<>>,
    <<"N","e","w"," ","J","e","r","s","e","y">>,
    <<" ","o","h","i","o"," ">>,
    <<"T","e","x","a","s">>,
    <<"N","J"," ">>,
    <<"c","o","n","s","t","r","u","c","t","o","r">>,
    <<"t","o","S","t","r","i","n","g">>,
    <<"_","_","p","r","o","t","o","_","_">> }

StateInputs == TwoLetterCodes \cup OtherStateInputs

SRECProductions ==
  {Fin(k * 250) : k \in 0..MaxProductionSteps}
    \cup {Fin(9180), Fin(9500), Fin(-1500), Rat(19001, 2), NaN, Inf(1)}

\* the functions are pure: one call from the initial state shows a call
CallCalculateSRECIncome ==
  /\ op = "none"
  /\ \E annualProductionKWH \in SRECProductions, state \in StateInputs :
       /\ op' = "calculateSRECIncome"
       /\ arg' = [annualProductionKWH |-> annualProductionKWH, state |-> state]
       /\ ret' = calculateSRECIncome(Fin(5), annualProductionKWH, state)
  /\ UNCHANGED <<tables, utilityVars, formVars, API_KEY, invocationVars>>

CallIsSRECState ==
  /\ op = "none"
  /\ \E stateCode \in StateInputs :
       /\ op' = "isSRECState"
       /\ arg' = stateCode
       /\ ret' = isSRECState(stateCode)
  /\ UNCHANGED <<tables, utilityVars, formVars, API_KEY, invocationVars>>

CallGetStatePricing ==
  /\ op = "none"
  /\ \E stateCode \in StateInputs :
       /\ op' = "getStatePricing"
       /\ arg' = stateCode
       /\ ret' = getStatePricing(stateCode)
  /\ UNCHANGED <<tables, utilityVars, formVars, API_KEY, invocationVars>>

\* the credential plays no part in the direct calls
InitCalls == Init /\ API_KEY

NextSREC == CallCalculateSRECIncome \/ CallIsSRECState

SpecSREC == InitCalls /\ [][NextSREC]_vars

\* system sizes from 0 to MaxSizeSteps / 10 kW in steps of 0.1 kW
MaxSizeSteps == 60

\* the states calculate can price with: every key of the pricing table, a
\* code that is not in it, and no state
PricingSources == DOMAIN statePricingTable \cup {Str_ZZ, Undefined}

\* calculate from the production estimate on, for a system size and a state
CallCalculateFromSize ==
  /\ op = "none"
  /\ \E state \in PricingSources, k \in 0..MaxSizeSteps :
       LET inp == [NoInput EXCEPT !.location.latitude = Rat(407128, 10000),
                                  !.location.state = Undefined,
                                  !.monthlyBill = Fin(120),
                                  !.utilityRate = Rat(15, 100),
                                  !.state = state]
           size == Rat(k, 10)
       IN  /\ op' = "calculate"
           /\ arg' = [state |-> state, systemSize |-> size]
           /\ ret' = Finish(inp, size, calculateAnnualProduction(size, inp.location))
  /\ UNCHANGED <<tables, utilityVars, formVars, API_KEY, invocationVars>>

NextPricing == CallGetStatePricing \/ CallCalculateFromSize

SpecPricing == InitCalls /\ [][NextPricing]_vars

CallGetCrossStateOptions ==
  /\ op = "none"
  /\ \E stateCode \in StateInputs :
       /\ op' = "getCrossStateOptions"
       /\ arg' = stateCode
       /\ ret' = getCrossStateOptions(stateCode)
  /\ UNCHANGED <<tables, utilityVars, formVars, API_KEY, invocationVars>>

CallCalculateBestSRECOption ==
  /\ op = "none"
  /\ \E annualProductionKWH \in SRECProductions, homeState \in StateInputs :
       /\ op' = "calculateBestSRECOption"
       /\ arg' = [annualProductionKWH |-> annualProductionKWH, homeState |-> homeState]
       /\ ret' = calculateBestSRECOption(Fin(5), annualProductionKWH, homeState)
  /\ UNCHANGED <<tables, utilityVars, formVars, API_KEY, invocationVars>>

(***************************************************************************)
(* SolarRoofEngineer                                                       *)
(***************************************************************************)
\* Math.max of two numbers
MathMax(a, b) ==
  CHOOSE r \in
    { IF IsNaN(x) \/ IsNaN(y) THEN NaN ELSE IF Gt(y, x) THEN y ELSE x :
      x \in {a}, y \in {b} } : TRUE

\* Math.floor
MathFloor(a) ==
  CHOOSE r \in { IF IsFinite(x) THEN Fin(x.n \div x.d) ELSE x : x \in {a} } : TRUE

\* the largest natural number whose square is at most n
IntegerRoot(n) == CHOOSE s \in 0..n : s * s <= n /\ (s + 1) * (s + 1) > n

\* Math.sqrt, exact on the quotients of two squares: NaN below 0
MathSqrt(a) ==
  CHOOSE r \in
    { IF IsNaN(x) THEN NaN
      ELSE IF ~IsFinite(x) THEN (IF x.n > 0 THEN x ELSE NaN)
      ELSE IF x.n < 0 THEN NaN
      ELSE Rat(IntegerRoot(x.n), IntegerRoot(x.d)) : x \in {a} } : TRUE

\* Math.sin((degrees * Math.PI) / 180) to four decimal places, at the tilts
\* the latitudes of the model give
MathSinOfDegrees(degrees) ==
  CASE degrees = Fin(15) -> Rat(2588, 10000)
    [] degrees = Fin(30) -> Rat(1, 2)
    [] degrees = Fin(45) -> Rat(7071, 10000)

STANDARD_400W_PANEL ==
  [lengthInches |-> Fin(79), widthInches |-> Fin(39),
   lengthFeet |-> Rat(79, 12), widthFeet |-> Rat(39, 12),
   lengthMeters |-> Rat(79 * 254, 10000), widthMeters |-> Rat(39 * 254, 10000),
   areaSquareFeet |-> Rat(79 * 39, 144),
   areaSquareMeters |-> Rat(79 * 39 * 64516, 100000000),
   watts |-> Fin(400)]

STANDARD_SETBACKS ==
  [fireSetbackFeet |-> Fin(3), edgeSetbackFeet |-> Fin(1),
   obstructionSetbackFeet |-> Fin(1), walkwayWidthFeet |-> Fin(3)]

STANDARD_SPACING ==
  [rowSpacingFeet |-> Fin(2), columnSpacingFeet |-> Rat(1, 2),
   tileDegrees |-> Fin(25), shadingFactorMultiplier |-> Rat(5, 2)]

\* the value of a number argument that is not passed
UndefinedNumber == [k |-> "undefined", n |-> 0, d |-> 1]

\* if (latitude): an absent latitude, 0 and NaN keep the standard spacing
calculateOptimalSpacing(latitude) ==
  IF latitude = UndefinedNumber \/ ~Truthy(latitude) THEN STANDARD_SPACING
  ELSE LET tileDegrees == MathMin(MathMax(latitude, Fin(15)), Fin(45))
           panelHeightFeet == STANDARD_400W_PANEL.lengthFeet
       IN  [STANDARD_SPACING EXCEPT
              !.tileDegrees = tileDegrees,
              !.rowSpacingFeet =
                 Mul(Mul(panelHeightFeet, MathSinOfDegrees(tileDegrees)),
                     STANDARD_SPACING.shadingFactorMultiplier)]

\* the usable roof area with a setback band that is not floored at 0
calculateUsableRoofAreaWithoutFloor(totalRoofAreaSqFt, setbacks) ==
  LET roofSideLength == MathSqrt(totalRoofAreaSqFt)
      perimeterSetbackFeet == Add(setbacks.fireSetbackFeet, setbacks.edgeSetbackFeet)
      usableLength == Sub(roofSideLength, Mul(Fin(2), perimeterSetbackFeet))
      usableAreaAfterSetbacks ==
        CHOOSE r \in { Mul(l, l) : l \in {usableLength} } : TRUE
      finalUsableArea == Mul(usableAreaAfterSetbacks, Rat(85, 100))
  IN  [totalRoofAreaSqFt |-> totalRoofAreaSqFt,
       setbackAreaLossSqFt |-> Sub(totalRoofAreaSqFt, usableAreaAfterSetbacks),
       obstructionAreaLossSqFt |-> Mul(usableAreaAfterSetbacks, Rat(10, 100)),
       spacingAreaLossSqFt |-> Mul(usableAreaAfterSetbacks, Rat(5, 100)),
       usableAreaSqFt |-> finalUsableArea,
       usableAreaPercentage |-> Mul(Div(finalUsableArea, totalRoofAreaSqFt), Fin(100))]

calculateUsableRoofArea(totalRoofAreaSqFt, setbacks) ==
  LET roofSideLength == MathSqrt(totalRoofAreaSqFt)
      perimeterSetbackFeet == Add(setbacks.fireSetbackFeet, setbacks.edgeSetbackFeet)
      usableLength == MathMax(Fin(0), Sub(roofSideLength, Mul(Fin(2), perimeterSetbackFeet)))
      usableWidth == usableLength
      usableAreaAfterSetbacks ==
        CHOOSE r \in { Mul(l, w) : l \in {usableLength}, w \in {usableWidth} } : TRUE
      obstructionAreaLoss == Mul(usableAreaAfterSetbacks, Rat(10, 100))
      spacingAreaLoss == Mul(usableAreaAfterSetbacks, Rat(5, 100))
      setbackAreaLoss == Sub(totalRoofAreaSqFt, usableAreaAfterSetbacks)
      finalUsableArea ==
        CHOOSE r \in { Sub(Sub(u, o), l) :
                       u \in {usableAreaAfterSetbacks}, o \in {obstructionAreaLoss},
                       l \in {spacingAreaLoss} } : TRUE
  IN  [totalRoofAreaSqFt |-> totalRoofAreaSqFt,
       setbackAreaLossSqFt |-> setbackAreaLoss,
       obstructionAreaLossSqFt |-> obstructionAreaLoss,
       spacingAreaLossSqFt |-> spacingAreaLoss,
       usableAreaSqFt |-> MathMax(Fin(0), finalUsableArea),
       usableAreaPercentage |-> Mul(Div(finalUsableArea, totalRoofAreaSqFt), Fin(100))]

calculateMaxPanelsWithSpacing(usableAreaSqFt, panelSpecs, spacing) ==
  LET panelWithSpacingLength == Add(panelSpecs.lengthFeet, spacing.rowSpacingFeet)
      panelWithSpacingWidth == Add(panelSpecs.widthFeet, spacing.columnSpacingFeet)
      panelWithSpacingArea == Mul(panelWithSpacingLength, panelWithSpacingWidth)
      theoreticalMaxPanels == MathFloor(Div(usableAreaSqFt, panelWithSpacingArea))
      layoutEfficiency == Rat(85, 100)
  IN  MathFloor(Mul(theoreticalMaxPanels, layoutEfficiency))

calculateEngineeredCapacity(googleRoofAreaSqFt, googleMaxPanels, latitude) ==
  LET panelSpecs == STANDARD_400W_PANEL
      setbacks == STANDARD_SETBACKS
      spacing == calculateOptimalSpacing(latitude)
      usableArea == calculateUsableRoofArea(googleRoofAreaSqFt, setbacks)
      maxPanelsEngineered ==
        CHOOSE r \in { calculateMaxPanelsWithSpacing(u.usableAreaSqFt, panelSpecs, sp) :
                       u \in {usableArea}, sp \in {spacing} } : TRUE
  IN  [panelSpecs |-> panelSpecs,
       roofSetbacks |-> setbacks,
       panelSpacing |-> spacing,
       usableArea |-> usableArea,
       maxPanelsEngineered |-> maxPanelsEngineered,
       maxSystemSizeKW |-> Div(Mul(maxPanelsEngineered, panelSpecs.watts), Fin(1000)),
       googleEstimate |-> googleMaxPanels,
       engineeringReduction |-> Sub(googleMaxPanels, maxPanelsEngineered),
       engineeringEfficiency |-> Div(maxPanelsEngineered, googleMaxPanels)]

(***************************************************************************)
(* getEnhancedSolarInsights.  googleData is what getBuildingSolarData      *)
(* resolved to: json "null" (no credential, a failed request or an         *)
(* unparseable body), "noSolarPotential", "noBuildingInsights", or         *)
(* "insights" with the numbers of solarPotential.                          *)
(***************************************************************************)
NullInsights == [returned |-> "null"]

getEnhancedSolarInsights(lat, googleData) ==
  IF googleData.json # "insights" THEN NullInsights
  ELSE LET roofAreaSqFt == Mul(googleData.areaMeters2, Rat(10764, 1000))
           maxPanelsGoogle == googleData.maxArrayPanelsCount
           sunshineHours ==
             IF Truthy(googleData.maxSunshineHoursPerYear)
               THEN googleData.maxSunshineHoursPerYear ELSE Fin(1600)
           engineeringAnalysis ==
             CHOOSE r \in { calculateEngineeredCapacity(a, m, lat) :
                            a \in {roofAreaSqFt}, m \in {maxPanelsGoogle} } : TRUE
           recommendedPanelCount ==
             MathFloor(Mul(engineeringAnalysis.maxPanelsEngineered, Rat(8, 10)))
           recommendedSystemSizeKW == Div(Mul(recommendedPanelCount, Fin(400)), Fin(1000))
           recommendedAnnualProduction ==
             Mul(Div(Mul(Mul(recommendedPanelCount, Fin(400)), sunshineHours), Fin(1000)),
                 Rat(86, 100))
       IN  [returned |-> "insights",
            googleData |->
              [maxPanels |-> maxPanelsGoogle,
               roofAreaSqFt |-> Round(roofAreaSqFt),
               roofAreaM2 |-> Round(googleData.areaMeters2),
               sunshineHours |-> sunshineHours],
            engineeringAnalysis |-> engineeringAnalysis,
            recommendedSystemSize |->
              [panelCount |-> recommendedPanelCount,
               systemSizeKW |-> Div(Round(Mul(recommendedSystemSizeKW, Fin(10))), Fin(10)),
               annualProductionKWH |-> Round(recommendedAnnualProduction),
               roofUtilization |->
                 Mul(Div(recommendedPanelCount, maxPanelsGoogle), Fin(100))]]

\* latitudes from -MaxLatitudeSteps * 2.5 to MaxLatitudeSteps * 2.5 degrees
\* (the thresholds 25, 35, 40 and 45 among them), and latitudes 0.01
\* degrees beyond a threshold
MaxLatitudeSteps == 20

CallLatitudes ==
  {Rat(5 * k, 2) : k \in (0 - MaxLatitudeSteps)..MaxLatitudeSteps}
    \cup {Rat(2501, 100), Rat(-3501, 100), Rat(4001, 100), Rat(-4501, 100)}

\* system sizes in kW: none, small, ordinary, limited, and what a negative
\* bill or a utility rate of 0 gives
CallSystemSizes == {Fin(0), Rat(1, 10), Rat(76, 10), Fin(10), Rat(-76, 10), NaN, Inf(1)}

\* a location at a latitude
LocationAt(latitude) ==
  [address |-> "123 Test St", latitude |-> latitude, longitude |-> Rat(-74006, 1000),
   state |-> Undefined]

\* estimatePeakSunHours at two latitudes
CallEstimatePeakSunHours ==
  /\ op = "none"
  /\ \E south \in CallLatitudes, north \in CallLatitudes :
       /\ op' = "estimatePeakSunHours"
       /\ arg' = <<south, north>>
       /\ ret' = <<estimatePeakSunHours(south), estimatePeakSunHours(north)>>
  /\ UNCHANGED <<tables, utilityVars, formVars, API_KEY, invocationVars>>

\* calculateAnnualProduction for one system size at two locations
CallCalculateAnnualProduction ==
  /\ op = "none"
  /\ \E size \in CallSystemSizes, south \in CallLatitudes, north \in CallLatitudes :
       /\ op' = "calculateAnnualProduction"
       /\ arg' = [systemSize |-> size, latitudes |-> <<south, north>>]
       /\ ret' = << calculateAnnualProduction(size, LocationAt(south)),
                    calculateAnnualProduction(size, LocationAt(north)) >>
  /\ UNCHANGED <<tables, utilityVars, formVars, API_KEY, invocationVars>>

NextProduction == CallEstimatePeakSunHours \/ CallCalculateAnnualProduction

SpecProduction == InitCalls /\ [][NextProduction]_vars

\* inputs that differ in the roof area and the address
RoofAreaInputs ==
  { [inp EXCEPT !.roofArea = roofArea, !.location.address = address] :
    inp \in {i \in ConcurrentInputs : i.monthlyBill = Fin(120) /\ i.state = Str_NJ},
    roofArea \in {Fin(0), Fin(1000)},
    address \in {"123 Test St", "1 Main St"} }

\* two invocations of calculate on such inputs
NextRoofArea ==
  \E p \in Procs :
    \/ \E inp \in RoofAreaInputs : Calculate(p, inp)
    \/ \E outcome \in FetchOutcomes : FetchSettles(p, outcome)
    \/ \E body \in Bodies : JsonSettles(p, body)
    \/ Resume(p)

SpecRoofArea == Init /\ [][NextRoofArea]_vars

(***************************************************************************)
(* One invocation of getUtilityRates                                       *)
(***************************************************************************)
\* Los Angeles, Austin, Orlando, New York, Philadelphia, and the corner of
\* the California box
UtilityCoordinates ==
  { <<Fin(34), Fin(-118)>>, <<Fin(30), Fin(-97)>>, <<Rat(285, 10), Rat(-814, 10)>>,
    <<Rat(407128, 10000), Rat(-74006, 1000)>>, <<Fin(40), Rat(-752, 10)>>,
    <<Rat(325, 10), Fin(-114)>> }

FailedAnswers ==
  { [NoAnswer EXCEPT !.kind = kind] : kind \in {"rejected", "non2xx", "invalid", "null"} }

AnswersWithRate(kind) ==
  { [kind |-> kind, rateKind |-> "absent", rate |-> Fin(0), named |-> FALSE,
     sourced |-> FALSE],
    [kind |-> kind, rateKind |-> "number", rate |-> Rat(21, 100), named |-> TRUE,
     sourced |-> TRUE],
    [kind |-> kind, rateKind |-> "text", rate |-> TextRate, named |-> TRUE,
     sourced |-> FALSE] }

OpenEIAnswers ==
  FailedAnswers
    \cup { [NoAnswer EXCEPT !.kind = kind] : kind \in {"noItems", "emptyItems"} }
    \cup AnswersWithRate("item")

BackendAnswers == FailedAnswers \cup AnswersWithRate("object")

NextUtility ==
  \/ \E c \in UtilityCoordinates : GetUtilityRates(c[1], c[2])
  \/ \E answer \in OpenEIAnswers : OpenEISettles(answer)
  \/ \E answer \in BackendAnswers : BackendSettles(answer)

InitUtility == InitState /\ API_KEY

SpecUtility == InitUtility /\ [][NextUtility]_vars

\* both requests are assumed to settle
FairSpecUtility ==
  /\ SpecUtility
  /\ WF_vars(\E answer \in OpenEIAnswers : OpenEISettles(answer))
  /\ WF_vars(\E answer \in BackendAnswers : BackendSettles(answer))

(***************************************************************************)
(* The edits and submits of one LeadCaptureForm                            *)
(***************************************************************************)
FormNames == {<<>>, <<" ">>, <<"A","n","n">>}

FormEmails ==
  {<<>>, <<"a","n","n">>, <<"a","@","b">>, <<"a"," ","@","b",".","c">>,
   <<"a","@","b",".","c">>}

NextLead ==
  \/ \E value \in FormNames : handleInputChange("name", value)
  \/ \E value \in FormEmails : handleInputChange("email", value)
  \/ handleSubmit
  \/ \E outcome \in {"rejected", "non2xx", "unparseable", "ok"} : LeadPostSettles(outcome)

SpecLead == Init /\ [][NextLead]_vars

\* square roofs with a side of 0 to MaxRoofSideFeet feet
MaxRoofSideFeet == 50

\* roof areas in square feet, and an area below 0
RoofAreas == {Fin(side * side) : side \in 0..MaxRoofSideFeet} \cup {Fin(-100)}

\* the maximum number of panels that the roof-imagery provider reports
MaxPanelEstimates == {Fin(0), Fin(1), Fin(10), Fin(22), Fin(50), Fin(100)}

\* no latitude, falsy latitudes, and latitudes below, within and above the
\* tilts of 15 to 45 degrees
RoofLatitudes == {UndefinedNumber, Fin(0), NaN, Fin(-30), Fin(10), Fin(30), Fin(45), Fin(60)}

CallCalculateEngineeredCapacity ==
  /\ op = "none"
  /\ \E googleRoofAreaSqFt \in RoofAreas, googleMaxPanels \in MaxPanelEstimates, latitude \in RoofLatitudes :
       /\ op' = "calculateEngineeredCapacity"
       /\ arg' = [googleRoofAreaSqFt |-> googleRoofAreaSqFt,
                  googleMaxPanels |-> googleMaxPanels, latitude |-> latitude]
       /\ ret' = calculateEngineeredCapacity(googleRoofAreaSqFt, googleMaxPanels, latitude)
  /\ UNCHANGED <<tables, utilityVars, formVars, API_KEY, invocationVars>>

\* the sides of square roofs, in steps of half a foot
RoofSides == {Rat(k, 2) : k \in 0..(2 * MaxRoofSideFeet)}

CallCalculateUsableRoofArea ==
  /\ op = "none"
  /\ \E side \in RoofSides :
       /\ op' = "calculateUsableRoofArea"
       /\ arg' = [totalRoofAreaSqFt |-> Mul(side, side), setbacks |-> STANDARD_SETBACKS]
       /\ ret' = calculateUsableRoofArea(Mul(side, side), STANDARD_SETBACKS)
  /\ UNCHANGED <<tables, utilityVars, formVars, API_KEY, invocationVars>>

CallCalculateOptimalSpacing ==
  /\ op = "none"
  /\ \E latitude \in RoofLatitudes :
       /\ op' = "calculateOptimalSpacing"
       /\ arg' = latitude
       /\ ret' = calculateOptimalSpacing(latitude)
  /\ UNCHANGED <<tables, utilityVars, formVars, API_KEY, invocationVars>>

\* what getBuildingSolarData can resolve to: the roof areas are those that
\* convert to a square roof with a side of 0, 5, ... MaxRoofSideFeet feet
GoogleResponses ==
  { [json |-> j, areaMeters2 |-> Fin(0), maxArrayPanelsCount |-> Fin(0),
     maxSunshineHoursPerYear |-> Fin(0)] :
    j \in {"null", "noSolarPotential", "noBuildingInsights"} }
  \cup
  { [json |-> "insights", areaMeters2 |-> Rat(1000 * side * side, 10764),
     maxArrayPanelsCount |-> m, maxSunshineHoursPerYear |-> h] :
    side \in {5 * k : k \in 0..(MaxRoofSideFeet \div 5)},
    m \in {Fin(0), Fin(10), Fin(22), Fin(50)},
    h \in {Fin(0), Fin(1800)} }

CallGetEnhancedSolarInsights ==
  /\ op = "none"
  /\ \E lat \in RoofLatitudes \ {UndefinedNumber, NaN}, googleData \in GoogleResponses :
       /\ op' = "getEnhancedSolarInsights"
       /\ arg' = [lat |-> lat, googleData |-> googleData]
       /\ ret' = getEnhancedSolarInsights(lat, googleData)
  /\ UNCHANGED <<tables, utilityVars, formVars, API_KEY, invocationVars>>

NextRoof ==
  \/ CallCalculateEngineeredCapacity
  \/ CallCalculateUsableRoofArea
  \/ CallCalculateOptimalSpacing
  \/ CallGetEnhancedSolarInsights

SpecRoof == InitCalls /\ [][NextRoof]_vars

NextCrossState == CallGetCrossStateOptions \/ CallCalculateBestSRECOption

SpecCrossState == InitCalls /\ [][NextCrossState]_vars

(***************************************************************************)
(* Properties of SolarCalculator.calculate                                 *)
(***************************************************************************)
Positive(a) == Gt(a, Fin(0))

\* round(systemSize * estimatePeakSunHours(latitude) * 0.86 * 365) for the
\* system size of the result of invocation p
FallbackValue(p) ==
  Round(Mul(Mul(Mul(result[p].systemSize,
                    estimatePeakSunHours(input[p].location.latitude)),
                Rat(86, 100)),
            Fin(365)))

\* the body is malformed (unparseable, or ac_annual is no number) or
\* incomplete (null, no outputs, no ac_annual)
BadPayload(body) == body.json \in {"invalid", "null", "noOutputs", "noAcAnnual", "text"}

\* the request of invocation p was answered, and the answer is a failure
RequestFailed(p) ==
  \/ response[p].fetch \in {"rejected", "non2xx"}
  \/ /\ response[p].fetch = "ok"
     /\ pc[p] \in {"resume", "done"}
     /\ BadPayload(response[p].body)

\* the provider call of invocation p failed in one of the four ways
ProviderCallFailed(p) == ~API_KEY \/ RequestFailed(p)

\* C1: for every failure mode of the provider call (no credential, non-2xx,
\* rejected fetch, malformed or incomplete payload) the returned
\* annualProduction is the fallback value, which is positive whenever the
\* system size is positive.
C1_FallbackOnEveryFailure ==
  \A p \in Procs :
    (pc[p] = "done" /\ ProviderCallFailed(p)) =>
      /\ result[p].annualProduction = FallbackValue(p)
      /\ (Positive(result[p].systemSize) => Positive(result[p].annualProduction))

\* a 2xx answer whose ac_annual is a non-empty string: the invocation
\* returns NaN as the annual production of a system of positive size
C1_TextPayloadGivesNaN ==
  /\ pc[1] = "done"
  /\ API_KEY
  /\ response[1].fetch = "ok"
  /\ response[1].body.json = "text"
  /\ Positive(result[1].systemSize)
  /\ IsNaN(result[1].annualProduction)

\* the same statement for the failures the code detects (every failure mode
\* but a payload whose ac_annual is a non-empty string): TLC finds it to hold
FallbackOnDetectedFailure ==
  \A p \in Procs :
    (pc[p] = "done" /\ ProviderCallFailed(p) /\ pvwattsData[p].json # "text") =>
      /\ result[p].annualProduction = FallbackValue(p)
      /\ (Positive(result[p].systemSize) => Positive(result[p].annualProduction))

\* C2: with the credential configured, a 2xx answer and a well-formed
\* payload whose ac_annual is a number v >= 0, the returned annualProduction
\* is round(v).
C2_ProviderValueVerbatim ==
  \A p \in Procs :
    ( /\ pc[p] = "done"
      /\ API_KEY
      /\ response[p].fetch = "ok"
      /\ response[p].body.json = "number"
      /\ Le(Fin(0), response[p].body.ac) ) =>
      result[p].annualProduction = Round(response[p].body.ac)

\* a 2xx answer whose ac_annual is the number 0: the invocation returns the
\* positive value of the fallback formula
C2_ZeroProductionReplaced ==
  /\ pc[1] = "done"
  /\ API_KEY
  /\ response[1].fetch = "ok"
  /\ response[1].body.json = "number"
  /\ response[1].body.ac = Fin(0)
  /\ result[1].annualProduction = FallbackValue(1)
  /\ Positive(result[1].annualProduction)

\* the same statement for v > 0: TLC finds it to hold
ProviderValueVerbatimWhenPositive ==
  \A p \in Procs :
    ( /\ pc[p] = "done"
      /\ API_KEY
      /\ response[p].fetch = "ok"
      /\ response[p].body.json = "number"
      /\ Positive(response[p].body.ac) ) =>
      result[p].annualProduction = Round(response[p].body.ac)

\* C3: an invocation issues at most one outbound request, and none without
\* a credential; once its request has failed (non-2xx, rejection, bad
\* payload) it awaits nothing more, has issued exactly that one request, and
\* returns the value of the fallback formula.
C3_SingleAttemptThenFallback ==
  \A p \in Procs :
    /\ requests[p] <= 1
    /\ (~API_KEY => requests[p] = 0)
    /\ RequestFailed(p) =>
         /\ pc[p] \in {"resume", "done"}
         /\ requests[p] = 1
         /\ (pc[p] = "done" => result[p].annualProduction = FallbackValue(p))

\* one request, answered with a bad payload, and a returned annual
\* production that is not the value of the fallback formula
C3_FailedRequestWithoutFallback ==
  /\ pc[1] = "done"
  /\ requests[1] = 1
  /\ RequestFailed(1)
  /\ result[1].annualProduction # FallbackValue(1)

\* the counting part of C3 alone: TLC finds it to hold
AtMostOneRequest ==
  \A p \in Procs :
    /\ requests[p] <= 1
    /\ (~API_KEY => requests[p] = 0)
    /\ (RequestFailed(p) => pc[p] \in {"resume", "done"} /\ requests[p] = 1)

\* C4: every started invocation eventually returns a result, provided the
\* outbound request settles.
C4_EventuallyReturns == (pc[1] # "idle") ~> (pc[1] = "done")

\* an invocation that issued its request, had it answered 2xx with a body
\* that failed to parse, and returned
C4_ReturnedAfterRequest ==
  /\ pc[1] = "done"
  /\ requests[1] = 1
  /\ response[1] = [fetch |-> "ok", body |-> InvalidJson]

\* what getSystemProduction resolves to for a provider answer
ResolvedData(resp) ==
  IF ~API_KEY \/ resp.fetch # "ok" \/ resp.body = InvalidJson THEN NullData ELSE resp.body

\* calculate run alone, in one piece, for an input and a provider answer
RunAlone(inp, resp) ==
  LET size == ClampedSystemSize(inp)
  IN  Finish(inp, size, ProductionFrom(ResolvedData(resp), size, inp.location))

\* C5: whatever the interleaving of two invocations, each returns what it
\* returns when run alone with the same input and provider answer, and the
\* pricing table and the SREC table are never written.
C5_InvocationsIndependent ==
  /\ statePricing = statePricingTable
  /\ SREC_STATES = SREC_STATES_Table
  /\ \A p \in Procs : pc[p] = "done" => result[p] = RunAlone(input[p], response[p])

\* invocation 1 has returned while invocation 2, given another input and
\* sized differently, has its request in flight
C5_ReturnedWhileOtherInFlight ==
  /\ pc[1] = "done"
  /\ pc[2] = "fetch"
  /\ input[1] # input[2]
  /\ systemSize[1] # systemSize[2]

(***************************************************************************)
(* Properties of the SREC calculator and of the pricing table, stated on   *)
(* the state after one direct call                                         *)
(***************************************************************************)
\* the call made was calculateSRECIncome with a two-letter state code
TwoLetterSRECCall == op = "calculateSRECIncome" /\ Len(arg.state) = 2

\* C6: calculateSRECIncome partitions the two-letter codes.  For a code of
\* the SREC table, in either letter case, the result is eligible and its
\* annualIncome is round((annualProductionKWH / 1000) * value of the state);
\* for every other two-letter code the result is ineligible and annualSRECs,
\* srecValue, annualIncome, lifetimeIncome and monthlyIncome are 0.
C6_EligibilityPartition ==
  TwoLetterSRECCall =>
    IF toUpperCase(arg.state) \in DOMAIN SREC_STATES_Table
      THEN /\ ret.isEligible
           /\ ret.annualIncome =
                Round(Mul(Div(arg.annualProductionKWH, Fin(1000)),
                          Fin(SREC_STATES_Table[toUpperCase(arg.state)].value)))
      ELSE /\ ~ret.isEligible
           /\ ret.annualSRECs = Fin(0)
           /\ ret.srecValue = Fin(0)
           /\ ret.annualIncome = Fin(0)
           /\ ret.lifetimeIncome = Fin(0)
           /\ ret.monthlyIncome = Fin(0)

\* "nj", in lower case, with 9,500 kWh: eligible, 1,188 USD a year
C6_LowerCaseCodeEligible ==
  /\ op = "calculateSRECIncome"
  /\ arg = [annualProductionKWH |-> Fin(9500), state |-> Str_nj]
  /\ ret.isEligible
  /\ ret.state = Str_NJ
  /\ ret.annualIncome = Fin(1188)

\* C7 as stated: a result with isEligible = false has annualProduction,
\* annualSRECs, srecValue, annualIncome, lifetimeIncome and monthlyIncome all
\* equal to zero, whatever annual production was passed in.
C7_IneligibleAllFieldsZero ==
  (op = "calculateSRECIncome" /\ ~ret.isEligible) =>
    /\ ret.annualProduction = Fin(0)
    /\ ret.annualSRECs = Fin(0)
    /\ ret.srecValue = Fin(0)
    /\ ret.annualIncome = Fin(0)
    /\ ret.lifetimeIncome = Fin(0)
    /\ ret.monthlyIncome = Fin(0)

\* C7, amended: a result with isEligible = false has annualSRECs, srecValue,
\* annualIncome, lifetimeIncome, eligibilityYears and monthlyIncome equal to
\* zero, and its annualProduction is the annual production passed in.
C7_IneligibleIncomeZeroProductionEchoed ==
  (op = "calculateSRECIncome" /\ ~ret.isEligible) =>
    /\ ret.annualProduction = arg.annualProductionKWH
    /\ ret.annualSRECs = Fin(0)
    /\ ret.srecValue = Fin(0)
    /\ ret.annualIncome = Fin(0)
    /\ ret.lifetimeIncome = Fin(0)
    /\ ret.eligibilityYears = Fin(0)
    /\ ret.monthlyIncome = Fin(0)

\* "ZZ" with 9,180 kWh: ineligible, and the result carries the 9,180 kWh
C7_IneligibleWithProduction ==
  /\ op = "calculateSRECIncome"
  /\ arg = [annualProductionKWH |-> Fin(9180), state |-> Str_ZZ]
  /\ ~ret.isEligible
  /\ ret.annualProduction = Fin(9180)
  /\ ret.annualIncome = Fin(0)

\* the call made was calculateSRECIncome for NJ with 9,500 kWh
NJExampleCall ==
  /\ op = "calculateSRECIncome"
  /\ arg = [annualProductionKWH |-> Fin(9500), state |-> Str_NJ]

C9_FifteenSRECStates ==
  /\ Cardinality(DOMAIN SREC_STATES) = 15
  /\ op = "isSRECState" => (ret <=> arg \in DOMAIN SREC_STATES)
  /\ TwoLetterSRECCall => (ret.isEligible <=> toUpperCase(arg.state) \in DOMAIN SREC_STATES)

\* NC, which PLANNING.md lists among the 15 eligible states, is reported as
\* no SREC state by the table of 13
C9_NorthCarolinaNotEligible ==
  /\ op = "isSRECState"
  /\ arg = <<"N", "C">>
  /\ ret = FALSE
  /\ Cardinality(DOMAIN SREC_STATES) = 13

\* C10: getStatePricing returns a record for every string; for a code whose
\* upper-cased form is a key of the table it returns that key's record, for
\* every other code the US average with avgSystemCost 20000, costPerWatt
\* 2.85, utilityRate 0.15 and laborCostIndex 1.0.
C10_PricingTotalCaseInsensitive ==
  op = "getStatePricing" =>
    IF toUpperCase(arg) \in DOMAIN statePricingTable
      THEN ret = statePricingTable[toUpperCase(arg)]
      ELSE /\ ret.state = <<"U", "S">>
           /\ ret.avgSystemCost = 20000
           /\ ret.costPerWatt = 285
           /\ ret.utilityRate = 15
           /\ ret.laborCostIndex = 100

\* "ca", in lower case, gives the record of CA, the only one with a
\* maxSystemSize (10 kW)
C10_LowerCaseCodeFound ==
  /\ op = "getStatePricing"
  /\ arg = Str_ca
  /\ ret = statePricingTable[Str_CA]
  /\ ret.state = Str_CA
  /\ ret.maxSystemSize = 100

\* the two-letter upper-case codes
UpperCaseCodes == {<<UpperLetters[i], UpperLetters[j]>> : i \in 1..26, j \in 1..26}

\* C11 as stated: the pricing table holds exactly 55 records, one per state
\* code, each stored under the key that is its own state field.
C11_FiftyFivePricingRecords ==
  /\ Cardinality(DOMAIN statePricing) = 55
  /\ DOMAIN statePricing \subseteq UpperCaseCodes
  /\ \A key \in DOMAIN statePricing : statePricing[key].state = key

\* C11, amended: the pricing table holds exactly 52 records (the 50 states,
\* DC and PR), one per two-letter upper-case code, each stored under the key
\* that is its own state field.
C11_FiftyTwoPricingRecords ==
  /\ Cardinality(DOMAIN statePricing) = 52
  /\ DOMAIN statePricing \subseteq UpperCaseCodes
  /\ \A key \in DOMAIN statePricing : statePricing[key].state = key

\* the record of the one territory, PR, looked up and returned under its key
C11_TerritoryRecordFound ==
  /\ op = "getStatePricing"
  /\ arg = <<"P", "R">>
  /\ ret = statePricing[<<"P", "R">>]
  /\ ret.state = <<"P", "R">>

(***************************************************************************)
(* Properties of the cross-state functions                                 *)
(***************************************************************************)
\* the elements of a sequence
Range(seq) == {seq[i] : i \in 1..Len(seq)}

\* the call made was getCrossStateOptions for a code of the SREC table
CrossStateCall == op = "getCrossStateOptions" /\ arg \in DOMAIN SREC_STATES

\* the sequence holds no element twice
NoDuplicates(seq) == \A i, j \in 1..Len(seq) : seq[i] = seq[j] => i = j

IncomeIn(annualProductionKWH, state) ==
  calculateSRECIncome(Fin(5), annualProductionKWH, state).annualIncome

\* the states calculateBestSRECOption has to weigh for a home state
Candidates(homeState) ==
  {homeState} \cup Range(getCrossStateOptions(normalizeStateCode(homeState)))

\* C13: calculateBestSRECOption returns a result whose annualIncome is the
\* maximum of calculateSRECIncome's annualIncome over the home state and its
\* cross-state options; when the home state attains the maximum (ties
\* included) the home-state result is returned; an ineligible home state
\* yields the ineligible result.
C13_BestOptionIsMaximum ==
  op = "calculateBestSRECOption" =>
    LET home == calculateSRECIncome(Fin(5), arg.annualProductionKWH, arg.homeState)
        incomes == {IncomeIn(arg.annualProductionKWH, state) : state \in Candidates(arg.homeState)}
    IN  /\ ret.annualIncome \in incomes
        /\ \A income \in incomes : ~Gt(income, ret.annualIncome)
        /\ (\A income \in incomes : ~Gt(income, home.annualIncome)) => ret = home
        /\ ~home.isEligible => (ret = home /\ ~ret.isEligible)

\* "oh", 9,500 kWh: 67 USD a year at home, 143 USD in the PA market
C13_OhioSellsInPennsylvania ==
  /\ op = "calculateBestSRECOption"
  /\ arg = [annualProductionKWH |-> Fin(9500), homeState |-> <<"o", "h">>]
  /\ ret.state = <<"P", "A">>
  /\ ret.annualIncome = Fin(143)
  /\ IncomeIn(Fin(9500), <<"o", "h">>) = Fin(67)

(***************************************************************************)
(* Properties of the system size                                           *)
(***************************************************************************)
\* two inputs that differ at most in the monthly bill
SameButBill(a, b) == [a EXCEPT !.monthlyBill = b.monthlyBill] = b

\* C14: for a fixed location, state and utility rate > 0 and two monthly
\* bills b1 <= b2, the systemSize returned for b1 is <= the systemSize
\* returned for b2.
C14_SystemSizeMonotoneInBill ==
  \A p, q \in Procs :
    ( /\ pc[p] = "done"
      /\ pc[q] = "done"
      /\ SameButBill(input[p], input[q])
      /\ Positive(input[p].utilityRate)
      /\ Le(input[p].monthlyBill, input[q].monthlyBill) ) =>
      Le(result[p].systemSize, result[q].systemSize)

\* CA, 150 USD and 200 USD a month: 9.6 kW, and 12.7 kW limited to 10 kW
C14_SmallerBillBelowClampedSize ==
  /\ pc[1] = "done"
  /\ pc[2] = "done"
  /\ SameButBill(input[1], input[2])
  /\ input[1].state = Str_CA
  /\ input[1].monthlyBill = Fin(150)
  /\ input[2].monthlyBill = Fin(200)
  /\ result[1].systemSize = Rat(96, 10)
  /\ estimateSystemSize(input[2]) = Rat(127, 10)
  /\ result[2].systemSize = Fin(10)

\* the size limit of the resolved state of an input in kW, 0 when the state
\* has none
CapOf(inp) == Rat(getStatePricing(ResolvedState(inp)).maxSystemSize, 10)

C16_Incentives ==
  \A p \in Procs :
    pc[p] = "done" =>
      /\ result[p].incentives.federal = Mul(result[p].systemCost, Rat(30, 100))
      /\ result[p].incentives.state = Mul(result[p].systemCost, Rat(5, 100))
      /\ result[p].incentives.utility = Mul(result[p].systemSize, Fin(100))
      /\ result[p].incentives.total =
           Add(Add(result[p].incentives.federal, result[p].incentives.state),
               result[p].incentives.utility)

\* the unknown state "ZZ", 7.6 kW at the US average of 2.85 USD per watt:
\* 21,660 USD, of which 6,498 USD federal, 1,083 USD state and 760 USD utility
C16_UnknownStateIncentives ==
  /\ pc[1] = "done"
  /\ input[1].state = Str_ZZ
  /\ result[1].systemSize = Rat(76, 10)
  /\ result[1].systemCost = Fin(21660)
  /\ result[1].incentives =
       [federal |-> Fin(6498), state |-> Fin(1083), utility |-> Fin(760),
        total |-> Fin(8341)]

\* C17: in every result, annualSavings = annualProduction * utilityRate;
\* totalAnnualSavings = annualSavings + srecData.annualIncome when a state is
\* resolved and srecData.isEligible, and = annualSavings otherwise; and
\* paybackPeriod = (systemCost - incentives.total) / totalAnnualSavings.
C17_SavingsAndPayback ==
  \A p \in Procs :
    pc[p] = "done" =>
      /\ result[p].annualSavings =
           Mul(result[p].annualProduction, input[p].utilityRate)
      /\ result[p].totalAnnualSavings =
           IF HasState(input[p]) /\ result[p].srecData.isEligible
             THEN Add(result[p].annualSavings, result[p].srecData.annualIncome)
             ELSE result[p].annualSavings
      /\ result[p].paybackPeriod =
           Div(Sub(result[p].systemCost, result[p].incentives.total),
               result[p].totalAnnualSavings)

\* NJ with the provider's 9,180 kWh at 0.15 USD/kWh: 1,377 USD of
\* electricity, 1,148 USD (rounded from 1,147.50) of SREC income, 2,525 USD
\* in all
C17_NewJerseySavings ==
  /\ pc[1] = "done"
  /\ input[1].state = Str_NJ
  /\ result[1].annualProduction = Fin(9180)
  /\ result[1].annualSavings = Fin(1377)
  /\ result[1].srecData.isEligible
  /\ result[1].srecData.annualIncome = Fin(1148)
  /\ result[1].totalAnnualSavings = Fin(2525)
  /\ IsFinite(result[1].paybackPeriod)
  /\ Positive(result[1].paybackPeriod)

\* C18 as stated: for every input whose result has srecData.isEligible =
\* true, totalAnnualSavings is strictly greater than annualSavings.
C18_EligibleAlwaysSavesMore ==
  \A p \in Procs :
    (pc[p] = "done" /\ HasState(input[p]) /\ result[p].srecData.isEligible) =>
      Gt(result[p].totalAnnualSavings, result[p].annualSavings)

\* C18, amended: for every input whose result has srecData.isEligible = true
\* and finite annualSavings, totalAnnualSavings is strictly greater than
\* annualSavings when srecData.annualIncome > 0 and equal to it when
\* srecData.annualIncome = 0.
C18_EligibleSavesMoreWithIncome ==
  \A p \in Procs :
    ( /\ pc[p] = "done"
      /\ HasState(input[p])
      /\ result[p].srecData.isEligible
      /\ IsFinite(result[p].annualSavings) ) =>
      /\ Positive(result[p].srecData.annualIncome) =>
           Gt(result[p].totalAnnualSavings, result[p].annualSavings)
      /\ result[p].srecData.annualIncome = Fin(0) =>
           result[p].totalAnnualSavings = result[p].annualSavings

\* NJ with the provider's 9,180 kWh: 1,148 USD more than the electricity
\* savings
C18_IncomeRaisesSavings ==
  /\ pc[1] = "done"
  /\ result[1].srecData.isEligible
  /\ result[1].srecData.annualIncome = Fin(1148)
  /\ result[1].annualSavings = Fin(1377)
  /\ Gt(result[1].totalAnnualSavings, result[1].annualSavings)

(***************************************************************************)
(* Properties of the fallback production estimate                          *)
(***************************************************************************)
\* 5.5 up to 25 degrees, 5.0 up to 35, 4.5 up to 40, 4.0 up to 45, else 3.5
StepOfAbsoluteLatitude(absLat) ==
  IF Le(absLat, Fin(25)) THEN Rat(55, 10)
  ELSE IF Le(absLat, Fin(35)) THEN Fin(5)
  ELSE IF Le(absLat, Fin(40)) THEN Rat(45, 10)
  ELSE IF Le(absLat, Fin(45)) THEN Fin(4)
  ELSE Rat(35, 10)

\* estimatePeakSunHours is the step function of abs(latitude), which never
\* increases as abs(latitude) increases
PeakSunHoursStepFunction ==
  op = "estimatePeakSunHours" =>
    /\ \A i \in 1..2 : ret[i] = StepOfAbsoluteLatitude(MathAbs(arg[i]))
    /\ Le(MathAbs(arg[1]), MathAbs(arg[2])) => Le(ret[2], ret[1])

\* the call made was calculateAnnualProduction at two latitudes, the first
\* of them no farther from the equator than the second
SouthNorthCall ==
  /\ op = "calculateAnnualProduction"
  /\ Le(MathAbs(arg.latitudes[1]), MathAbs(arg.latitudes[2]))

\* C19 as stated: estimatePeakSunHours is the step function of
\* abs(latitude), so it never increases as abs(latitude) increases; and for
\* two locations with equal system size on the fallback path, the one with
\* the lower abs(latitude) has annualProduction >= the other.
C19_LowerLatitudeProducesMore ==
  /\ PeakSunHoursStepFunction
  /\ SouthNorthCall => Le(ret[2], ret[1])

\* C19, amended: estimatePeakSunHours is the step function of abs(latitude),
\* so it never increases as abs(latitude) increases; and for two locations
\* with equal system size >= 0 on the fallback path, the one with the lower
\* abs(latitude) has annualProduction >= the other.
C19_LowerLatitudeProducesMoreForSizeAtLeastZero ==
  /\ PeakSunHoursStepFunction
  /\ (SouthNorthCall /\ Le(Fin(0), arg.systemSize)) => Le(ret[2], ret[1])

\* 7.6 kW at 30 degrees south and at 47.5 degrees north: 11,928 kWh and
\* 8,350 kWh
C19_SouthOutproducesNorth ==
  /\ op = "calculateAnnualProduction"
  /\ arg = [systemSize |-> Rat(76, 10), latitudes |-> <<Fin(-30), Rat(475, 10)>>]
  /\ ret = <<Fin(11928), Fin(8350)>>

(***************************************************************************)
(* Properties of the engineered roof capacity                              *)
(***************************************************************************)
\* C20: for every roof area, external max-panel estimate and latitude passed
\* to calculateEngineeredCapacity, the returned maxPanelsEngineered does not
\* exceed googleEstimate: engineeringReduction >= 0 and
\* engineeringEfficiency <= 1.
C20_EngineeredWithinEstimate ==
  op = "calculateEngineeredCapacity" =>
    /\ Le(ret.maxPanelsEngineered, ret.googleEstimate)
    /\ Le(Fin(0), ret.engineeringReduction)
    /\ Le(ret.engineeringEfficiency, Fin(1))

\* a roof of 1,600 square feet with an estimate of 10 panels and no
\* latitude: 22 panels, 12 more than the estimate
C20_EngineeredAboveEstimate ==
  /\ op = "calculateEngineeredCapacity"
  /\ arg = [googleRoofAreaSqFt |-> Fin(1600), googleMaxPanels |-> Fin(10),
            latitude |-> UndefinedNumber]
  /\ ret.maxPanelsEngineered = Fin(22)
  /\ ret.maxSystemSizeKW = Rat(88, 10)
  /\ ret.engineeringReduction = Fin(-12)
  /\ ret.engineeringEfficiency = Rat(22, 10)

\* the reduction and the efficiency are the difference and the quotient of
\* the estimate and the engineered count, and the engineered count is at
\* least 0 for every roof area that is at least 0
EngineeredCapacityDerivedFields ==
  op = "calculateEngineeredCapacity" =>
    /\ ret.googleEstimate = arg.googleMaxPanels
    /\ ret.engineeringReduction = Sub(arg.googleMaxPanels, ret.maxPanelsEngineered)
    /\ ret.engineeringEfficiency = Div(ret.maxPanelsEngineered, arg.googleMaxPanels)
    /\ Le(Fin(0), arg.googleRoofAreaSqFt) => Le(Fin(0), ret.maxPanelsEngineered)

(***************************************************************************)
(* Properties of calculate on degenerate input                            *)
(***************************************************************************)
\* utilityRate = 0 with monthlyBill > 0, or monthlyBill = 0
DegenerateInput(inp) ==
  \/ inp.utilityRate = Fin(0) /\ Positive(inp.monthlyBill)
  \/ inp.monthlyBill = Fin(0)

\* C21 as stated: for utilityRate = 0 with monthlyBill > 0, and for
\* monthlyBill = 0, calculate returns a result whose paybackPeriod is a
\* non-finite value (Infinity or NaN).
C21_DegenerateInputNonFinitePayback ==
  (pc[1] = "done" /\ DegenerateInput(input[1])) => ~IsFinite(result[1].paybackPeriod)

\* C21, amended: for utilityRate = 0 with monthlyBill > 0, and for
\* monthlyBill = 0, calculate returns a result whose paybackPeriod is
\* non-finite exactly when its totalAnnualSavings is not a positive number
\* or its systemSize is not finite; with a finite systemSize, an SREC income
\* or a production reported by the provider makes totalAnnualSavings
\* positive and paybackPeriod finite.
C21_DegenerateInputNonFinitePaybackUnlessSavings ==
  (pc[1] = "done" /\ DegenerateInput(input[1])) =>
    (~IsFinite(result[1].paybackPeriod) <=>
       (~Positive(result[1].totalAnnualSavings) \/ ~IsFinite(result[1].systemSize)))

\* a bill of 120 at a utility rate of 0 with no state: an infinite system
\* size and a paybackPeriod of NaN
C21_ZeroRateGivesNaNPayback ==
  /\ pc[1] = "done"
  /\ input[1].utilityRate = Fin(0)
  /\ input[1].monthlyBill = Fin(120)
  /\ ~HasState(input[1])
  /\ result[1].systemSize = Inf(1)
  /\ IsNaN(result[1].paybackPeriod)

(***************************************************************************)
(* Properties of the state resolution and the pricing in calculate         *)
(***************************************************************************)
\* C22: the state used by calculate is input.state when present, otherwise
\* location.state.  With a state, systemCost = round(systemSize * 1000 *
\* costPerWatt) at the costPerWatt of that state's pricing record, and an
\* unknown state code is priced at the US-average 2.85 USD per watt with a
\* not-SREC-eligible srecData; with no state, systemCost = systemSize *
\* 1000 * 3.00 and the result has no srecData.
C22_StateResolutionAndPricing ==
  pc[1] = "done" =>
    LET inp == input[1]
        present(s) == s # Undefined /\ s # <<>>
        state == IF present(inp.state) THEN inp.state ELSE inp.location.state
        known == toUpperCase(state) \in DOMAIN statePricingTable
        costPerWatt ==
          IF known THEN Rat(statePricingTable[toUpperCase(state)].costPerWatt, 100)
          ELSE Rat(285, 100)
        watts == Mul(result[1].systemSize, Fin(1000))
    IN  IF present(state)
          THEN /\ result[1].systemCost = Round(Mul(watts, costPerWatt))
               /\ result[1].hasSrecData
               /\ ~known => ~result[1].srecData.isEligible
          ELSE /\ result[1].systemCost = Mul(watts, Fin(3))
               /\ ~result[1].hasSrecData

\* the unknown code ZZ with a bill of 120: 7.6 or 7.1 or 9.1 kW at 2.85 USD
\* per watt, and an srecData that is not eligible
C22_UnknownCodeAtUSAverage ==
  /\ pc[1] = "done"
  /\ input[1].state = Str_ZZ
  /\ input[1].location.state = Str_NY
  /\ Positive(result[1].systemSize)
  /\ IsFinite(result[1].systemSize)
  /\ result[1].systemCost = Round(Mul(result[1].systemSize, Fin(2850)))
  /\ result[1].hasSrecData
  /\ ~result[1].srecData.isEligible

(***************************************************************************)
(* Properties of the order of the size limit and the production estimate   *)
(***************************************************************************)
\* C23: the size limit is applied before the production is estimated: the
\* capacity sent to the irradiance provider, the capacity used by the
\* fallback formula, the capacity used for pricing and incentives, and the
\* systemSize of the result are all the same (possibly clamped) value.
C23_OneCapacityEverywhere ==
  pc[1] # "idle" =>
    LET inp == input[1]
        state == ResolvedState(inp)
        estimate == estimateSystemSize(inp)
        max == Rat(getStatePricing(state).maxSystemSize, 10)
        size == IF HasState(inp) /\ Truthy(max) /\ Gt(estimate, max) THEN max ELSE estimate
    IN  /\ requests[1] > 0 => system_capacity[1] = size
        /\ pc[1] = "done" =>
             /\ result[1].systemSize = size
             /\ ~AcAnnualTruthy(pvwattsData[1]) =>
                  result[1].annualProduction = calculateAnnualProduction(size, inp.location)
             /\ result[1].systemCost =
                  IF HasState(inp) THEN getSystemCost(state, size)
                  ELSE Mul(Mul(size, Fin(1000)), COST_PER_WATT)
             /\ result[1].incentives.utility = Mul(size, Fin(100))

\* California with a bill of 500: the estimate is above the limit of 10 kW,
\* 10 kW are sent to the provider, and the fallback, the price and the
\* result use 10 kW
C23_ClampedCapacitySent ==
  /\ pc[1] = "done"
  /\ input[1].state = Str_ca
  /\ input[1].monthlyBill = Fin(500)
  /\ Gt(estimateSystemSize(input[1]), Fin(10))
  /\ requests[1] = 1
  /\ system_capacity[1] = Fin(10)
  /\ response[1].fetch = "rejected"
  /\ result[1].systemSize = Fin(10)
  /\ result[1].annualProduction = calculateAnnualProduction(Fin(10), input[1].location)
  /\ result[1].incentives.utility = Fin(1000)

(***************************************************************************)
(* Properties of the usable roof area and the panel spacing                *)
(***************************************************************************)
\* C24: for every total roof area A >= 0 and the standard setbacks,
\* calculateUsableRoofArea returns usableAreaSqFt = 0.85 * max(0, sqrt(A) -
\* 8)^2, which is never negative and is 0 whenever sqrt(A) <= 8, and the
\* four parts add up: setbackAreaLossSqFt + obstructionAreaLossSqFt +
\* spacingAreaLossSqFt + usableAreaSqFt = totalRoofAreaSqFt.
C24_UsableAreaAndParts ==
  op = "calculateUsableRoofArea" =>
    \A side \in RoofSides :
      Mul(side, side) = arg.totalRoofAreaSqFt =>
        LET band == IF Gt(side, Fin(8)) THEN Sub(side, Fin(8)) ELSE Fin(0)
        IN  /\ ret.usableAreaSqFt = Mul(Rat(85, 100), Mul(band, band))
            /\ Le(Fin(0), ret.usableAreaSqFt)
            /\ Le(side, Fin(8)) => ret.usableAreaSqFt = Fin(0)
            /\ Add(Add(Add(ret.setbackAreaLossSqFt, ret.obstructionAreaLossSqFt),
                       ret.spacingAreaLossSqFt), ret.usableAreaSqFt)
                 = ret.totalRoofAreaSqFt

\* a roof of 1,600 square feet: 576 lost to setbacks, 102.4 to
\* obstructions, 51.2 to spacing, and 870.4 usable
C24_FortyFootRoof ==
  /\ op = "calculateUsableRoofArea"
  /\ arg.totalRoofAreaSqFt = Fin(1600)
  /\ ret.setbackAreaLossSqFt = Fin(576)
  /\ ret.obstructionAreaLossSqFt = Rat(1024, 10)
  /\ ret.spacingAreaLossSqFt = Rat(512, 10)
  /\ ret.usableAreaSqFt = Rat(8704, 10)

\* C25: for every latitude supplied to calculateOptimalSpacing (any number,
\* northern, southern or equatorial), the returned tilt is the latitude
\* clamped to [15, 45] and the row spacing is recomputed from that tilt; the
\* defaults (tilt 25, row spacing 2 ft, column spacing 0.5 ft) are returned
\* only when the latitude is omitted.
C25_TiltFromEveryLatitude ==
  op = "calculateOptimalSpacing" =>
    IF arg = UndefinedNumber THEN ret = STANDARD_SPACING
    ELSE LET tilt == IF IsNaN(arg) THEN NaN
                     ELSE IF Gt(Fin(15), arg) THEN Fin(15)
                     ELSE IF Gt(arg, Fin(45)) THEN Fin(45) ELSE arg
         IN  /\ ret.tileDegrees = tilt
             /\ ret # STANDARD_SPACING
             /\ ~IsNaN(arg) =>
                  ret.rowSpacingFeet = Mul(Mul(Rat(79, 12), MathSinOfDegrees(tilt)), Rat(5, 2))

\* the latitude 0 of the equator gives the defaults
C25_EquatorGivesDefaults ==
  /\ op = "calculateOptimalSpacing"
  /\ arg = Fin(0)
  /\ ret = STANDARD_SPACING
  /\ ret.tileDegrees = Fin(25)

\* every latitude other than 0 and NaN gives the clamped tilt and the row
\* spacing of that tilt, and a southern latitude gives the tilt 15
TiltFromTruthyLatitude ==
  (op = "calculateOptimalSpacing" /\ arg # UndefinedNumber /\ Truthy(arg)) =>
    /\ ret.tileDegrees = MathMin(MathMax(arg, Fin(15)), Fin(45))
    /\ ret.rowSpacingFeet =
         Mul(Mul(Rat(79, 12), MathSinOfDegrees(ret.tileDegrees)), Rat(5, 2))
    /\ Gt(Fin(0), arg) => ret.tileDegrees = Fin(15)

(***************************************************************************)
(* Properties of the caller of the roof-engineering module                 *)
(***************************************************************************)
\* C26: getEnhancedSolarInsights never invokes calculateEngineeredCapacity
\* with an external max-panel count of 0, so the engineeringEfficiency and
\* the roofUtilization it returns are always finite numbers, for every
\* response the roof-imagery provider can give.
C26_InsightsAlwaysFinite ==
  (op = "getEnhancedSolarInsights" /\ ret.returned = "insights") =>
    /\ ret.engineeringAnalysis.googleEstimate # Fin(0)
    /\ IsFinite(ret.engineeringAnalysis.engineeringEfficiency)
    /\ IsFinite(ret.recommendedSystemSize.roofUtilization)

\* a roof of 1,600 square feet at latitude 30 for which the provider reports
\* no panels: calculateEngineeredCapacity is invoked with 0 and the
\* efficiency and the utilization are Infinity
C26_NoPanelsReported ==
  /\ op = "getEnhancedSolarInsights"
  /\ arg.lat = Fin(30)
  /\ arg.googleData.json = "insights"
  /\ arg.googleData.maxArrayPanelsCount = Fin(0)
  /\ ret.googleData.roofAreaSqFt = Fin(1600)
  /\ ret.engineeringAnalysis.googleEstimate = Fin(0)
  /\ Positive(ret.engineeringAnalysis.maxPanelsEngineered)
  /\ ret.engineeringAnalysis.engineeringEfficiency = Inf(1)
  /\ ret.recommendedSystemSize.roofUtilization = Inf(1)

\* with a panel count other than 0 the efficiency and the utilization are
\* finite, and without solarPotential or buildingInsights null is returned
InsightsFiniteForPanels ==
  op = "getEnhancedSolarInsights" =>
    /\ ret.returned = "insights" <=> arg.googleData.json = "insights"
    /\ (ret.returned = "insights" /\ arg.googleData.maxArrayPanelsCount # Fin(0)) =>
         /\ IsFinite(ret.engineeringAnalysis.engineeringEfficiency)
         /\ IsFinite(ret.recommendedSystemSize.roofUtilization)

(***************************************************************************)
(* Properties of the inputs that calculate does not read                   *)
(***************************************************************************)
\* C27: the result of calculate does not depend on input.roofArea or on
\* location.address: two invocations that differ only in those fields and
\* receive the same provider response return identical results.
C27_RoofAreaAndAddressIgnored ==
  \A p, q \in Procs :
    ( /\ pc[p] = "done"
      /\ pc[q] = "done"
      /\ [input[p] EXCEPT !.roofArea = input[q].roofArea,
                          !.location.address = input[q].location.address] = input[q]
      /\ pvwattsData[p] = pvwattsData[q] ) =>
      result[p] = result[q]

\* a roof area of 0 at one address and of 1,000 square feet at another, the
\* provider failing for both: the same 7.6 kW system
C27_NoRoofSameSystem ==
  /\ pc = [p \in Procs |-> "done"]
  /\ input[1].roofArea = Fin(0)
  /\ input[2].roofArea = Fin(1000)
  /\ input[1].location.address # input[2].location.address
  /\ input[1].state = input[2].state
  /\ pvwattsData[1] = NullData
  /\ pvwattsData[2] = NullData
  /\ result[1] = result[2]
  /\ Positive(result[1].systemSize)

(***************************************************************************)
(* Properties of the net cost                                              *)
(***************************************************************************)
\* C28: for every pricing source calculate can use (each record of the state
\* pricing table, the US-average record and the no-state rate of 3.00 USD
\* per watt) and every systemSize > 0 in steps of 0.1 kW, netCost =
\* systemCost - incentives.total is strictly positive; the division by
\* netCost in roiPercent divides by zero only when systemSize = 0.
C28_NetCostPositive ==
  op = "calculate" =>
    LET netCost == Sub(ret.systemCost, ret.incentives.total)
    IN  /\ Positive(arg.systemSize) => Positive(netCost) /\ IsFinite(ret.roiPercent)
        /\ netCost = Fin(0) <=> arg.systemSize = Fin(0)
        /\ arg.systemSize = Fin(0) => IsNaN(ret.roiPercent)

\* 0.1 kW without a state: a system cost of 300, incentives of 115 and a
\* net cost of 185
C28_SmallestSystemNetCost ==
  /\ op = "calculate"
  /\ arg = [state |-> Undefined, systemSize |-> Rat(1, 10)]
  /\ ret.systemCost = Fin(300)
  /\ ret.incentives.total = Fin(115)
  /\ Sub(ret.systemCost, ret.incentives.total) = Fin(185)

(***************************************************************************)
(* C29: getUtilityRates never raises and always returns a UtilityInfo.  It *)
(* consults its sources in the fixed order real-time rate provider,        *)
(* platform backend, state table by coordinates, constant default 0.15,    *)
(* and a later source is consulted only when every earlier one failed to   *)
(* yield a value: the credential is missing, the answer is not 2xx, the    *)
(* request or the parse failed, or the result is empty.                    *)
(***************************************************************************)
SourceOrder == <<"OpenEI", "Backend", "StateTable", "Default">>

Yielded(answer) == answer.kind \in {"item", "object"}

InABox(lat, lng) ==
  \/ Within(lat, Rat(325, 10), Fin(42)) /\ Within(lng, Rat(-1245, 10), Fin(-114))
  \/ Within(lat, Rat(258, 10), Rat(365, 10)) /\ Within(lng, Rat(-1066, 10), Rat(-935, 10))
  \/ Within(lat, Rat(244, 10), Fin(31)) /\ Within(lng, Rat(-876, 10), Fin(-80))
  \/ Within(lat, Rat(405, 10), Fin(45)) /\ Within(lng, Rat(-798, 10), Rat(-719, 10))

SourcesInOrder ==
  /\ utilityPc # "raised"
  /\ consulted = SubSeq(SourceOrder, 1, Len(consulted))
  /\ utilityPc # "idle" => Len(consulted) > 0
  /\ Len(consulted) >= 2 =>
       /\ ~Yielded(utilityCall.openEI)
       /\ OPENEI_API_KEY => utilityCall.openEI.kind # "none"
       /\ ~OPENEI_API_KEY => utilityCall.openEI.kind = "none"
  /\ Len(consulted) >= 3 =>
       utilityCall.backend.kind \in {"rejected", "non2xx", "invalid", "null"}
  /\ Len(consulted) = 4 => ~InABox(utilityCall.lat, utilityCall.lng)
  /\ utilityPc = "done" =>
       /\ utilityInfo.source # ""
       /\ utilityInfo.utility_name # ""
       /\ Len(consulted) = 1 =>
            /\ Yielded(utilityCall.openEI)
            /\ utilityInfo.source = "OpenEI Real-time Data"
       /\ Len(consulted) = 2 =>
            /\ Yielded(utilityCall.backend)
            /\ utilityInfo.source \in {"Backend API", "Source of the answer"}
       /\ Len(consulted) = 3 =>
            /\ InABox(utilityCall.lat, utilityCall.lng)
            /\ utilityInfo.source \in {"State Default (California)", "State Default (Texas)",
                                       "State Default (Florida)", "State Default (New York)"}
       /\ Len(consulted) = 4 =>
            utilityInfo = [rate |-> Rat(15, 100), utility_name |-> "Local Utility",
                           source |-> "Default Fallback"]

C29_SourcesInOrderAndAlwaysReturns ==
  /\ []SourcesInOrder
  /\ (utilityPc # "idle") ~> (utilityPc = "done")

\* both requests failed outside the boxes of the state table: 0.15 returned
C29_ConstantDefaultReached ==
  /\ utilityPc = "done"
  /\ OPENEI_API_KEY
  /\ utilityCall.openEI.kind = "non2xx"
  /\ utilityCall.backend.kind = "rejected"
  /\ consulted = SourceOrder
  /\ utilityInfo.rate = Rat(15, 100)

(***************************************************************************)
(* C30: in LeadCaptureForm, over any sequence of edits and submits, no     *)
(* lead POST is issued while the name is blank or the email is blank or    *)
(* malformed; formState becomes 'submitted' and onSubmit fires only after  *)
(* a POST that returned a 2xx response; a failed POST leads to 'error',    *)
(* from which the user can submit again; and once 'submitted' is reached   *)
(* no further POST is issued.                                              *)
(***************************************************************************)
Blank(s) == \A k \in 1..Len(s) : s[k] = " "

WellFormedEmails == {<<"a","@","b",".","c">>}

FailedOutcomes == {"rejected", "non2xx", "unparseable"}

LeadPostsInOrder ==
  /\ \A i \in 1..Len(posts) :
       /\ ~Blank(posts[i].body.name)
       /\ ~Blank(posts[i].body.email)
       /\ posts[i].body.email \in WellFormedEmails
       /\ posts[i].outcome = "pending" => i = Len(posts) /\ formState = "submitting"
       /\ posts[i].outcome \in FailedOutcomes => i < Len(posts) \/ formState = "error"
       /\ posts[i].outcome = "ok" => i = Len(posts) /\ formState = "submitted"
  /\ formState = "submitting" => Len(posts) > 0 /\ posts[Len(posts)].outcome = "pending"
  /\ formState = "error" => Len(posts) > 0 /\ posts[Len(posts)].outcome \in FailedOutcomes
  /\ formState = "submitted" =>
       /\ Len(posts) > 0
       /\ posts[Len(posts)].outcome = "ok"
       /\ onSubmitCalls = <<posts[Len(posts)].body>>
  /\ formState # "submitted" => onSubmitCalls = <<>>

C30_LeadPostsOnlyWhenValidAndOnce ==
  /\ []LeadPostsInOrder
  /\ [][/\ formState = "submitted" => posts' = posts /\ formState' = "submitted"
        /\ (formState = "error" /\ validateForm(formData) = {} /\ Len(posts) < MaxPosts)
             => ENABLED handleSubmit]_vars

\* a POST answered non-2xx, the form submitted again and accepted
C30_SubmittedAfterFailedPost ==
  /\ formState = "submitted"
  /\ Len(posts) = 2
  /\ posts[1].outcome = "non2xx"
  /\ posts[2].outcome = "ok"
  /\ Len(onSubmitCalls) = 1

====
